---- MODULE Spec2Model ----
(***************************************************************************)
(* Tombola dashboard: the tickets table (sql_client.py), the parser of the  *)
(* Jimdo exports (parse_jimdo.py: parse_file, followed statement by        *)
(* statement in ParseSpec) and the Streamlit script runs of app.py, one    *)
(* browser session per element of Sessions.  Every statement goes to the   *)
(* database on an autocommit connection, so the statements of different    *)
(* sessions interleave freely.  The manual-add dialog (DialogSpec), the     *)
(* email client of gmail_client.py (MailSpec, ResendSpec), the login gate  *)
(* of google_auth.py (AuthSpec) and the creation of the class's connection *)
(* pool by concurrent threads (ClassSpec) are followed on their own.       *)
(***************************************************************************)
EXTENDS Integers, Sequences, FiniteSets, TLC

\* ------------------------------------------------------------- bounds
MaxTicketId == 3    \* a send is started only while its range ends at or below this
MaxConn == 3        \* connections of the pool (maxconn of SimpleConnectionPool)

\* ---------------------------------------------------- program constants
STARTING_TICKET_ID == 1

\* ------------------------------------------------------------- values
NULL == "NULL"      \* SQL NULL / Python None in a VARCHAR column
None == <<>>        \* SQL NULL / Python None in the INTEGER id column
Some(n) == <<n>>    \* a non-null id
Val(x) == x[1]

Sessions == {"s1", "s2"}

D1 == "2025-09-01 00:00:00"
D2 == "2025-09-15 00:00:00"

Key(r) == <<r.name, r.date>>
SameKey(r, q) == r.name = q.name /\ r.date = q.date

\* ------------------------------------------- the variant text of an order
\* A text is a sequence of characters.
Digits == <<"0", "1", "2", "3", "4", "5", "6", "7", "8", "9">>
IsDigit(c) == \E i \in DOMAIN Digits : Digits[i] = c
DigitVal(c) == (CHOOSE i \in DOMAIN Digits : Digits[i] = c) - 1

\* The text from its first digit on.
RECURSIVE FromFirstDigit(_)
FromFirstDigit(text) ==
  IF text = <<>> \/ IsDigit(Head(text)) THEN text ELSE FromFirstDigit(Tail(text))

\* int() of the digits at the head of text.
RECURSIVE IntOfDigitRun(_, _)
IntOfDigitRun(text, acc) ==
  IF text = <<>> \/ ~IsDigit(Head(text)) THEN acc
  ELSE IntOfDigitRun(Tail(text), acc * 10 + DigitVal(Head(text)))

\* A search that stops after one digit.
num_tickets_of_FirstDigit(declinaison) ==
  LET run == FromFirstDigit(declinaison)
  IN IF run = <<>> THEN None ELSE Some(DigitVal(Head(run)))

\* re.search(r"(\d+)", declinaison) and int(match.group(1)): None when the
\* text holds no digit (the row is skipped).
num_tickets_of(declinaison) ==
  LET run == FromFirstDigit(declinaison)
  IN IF run = <<>> THEN None ELSE Some(IntOfDigitRun(run, 0))

\* A row emitted with the first ticket id in it.
Parsed_Assigned(name, date, email, firm, num_tickets) ==
  [id |-> Some(STARTING_TICKET_ID), date |-> date, firm |-> firm, name |-> name,
   email |-> email, num_tickets |-> num_tickets, achat |-> NULL]

\* A row as parse_dataframe emits it: id and achat are None; num_tickets is
\* the integer value of the first digit run of the variant text.
Parsed(name, date, email, firm, num_tickets) ==
  [id |-> None, date |-> date, firm |-> firm, name |-> name, email |-> email,
   num_tickets |-> num_tickets, achat |-> NULL]

\* The order_data add_order_dialog builds (number_input has min_value=1).
Dialog(name, date, email, firm, num_tickets, achat) ==
  [id |-> None, date |-> date, firm |-> firm, name |-> name, email |-> email,
   num_tickets |-> num_tickets, achat |-> achat]

\* Inputs of the concurrent dashboard: two orders, each in two versions.
RowsA == {Parsed("ann", D1, "ann@x.org", NULL, Val(num_tickets_of(<<"x", "2">>))),
          Parsed("ann", D1, "a@y.org", "acme", Val(num_tickets_of(<<"1">>))),
          Parsed("bob", D1, "bob@x.org", NULL, Val(num_tickets_of(<<"1">>))),
          Parsed("bob", D1, "bob@x.org", NULL, Val(num_tickets_of(<<"0">>)))}
FilesA == {<<r>> : r \in RowsA}
            \cup {<<Parsed("ann", D1, "ann@x.org", NULL, 2),
                    Parsed("bob", D1, "bob@x.org", NULL, 1)>>,
                  <<Parsed("ann", D1, "ann@x.org", NULL, 2),
                    Parsed("ann", D1, "a@y.org", "acme", 1)>>}
KeysA == {Key(r) : r \in RowsA}
OrdersA == {Dialog("bob", D1, "bob@x.org", NULL, 2, NULL)}
NotesA == {NULL, "cash"}

\* Inputs of the serialized dashboard: three orders, one of them with the
\* variant text "0".
RowsB == {Parsed("ann", D1, "ann@x.org", NULL, Val(num_tickets_of(<<"0">>))),
          Parsed("bob", D1, "bob@x.org", NULL, Val(num_tickets_of(<<"0", "2">>))),
          Parsed("ann", D2, "ann@x.org", NULL, Val(num_tickets_of(<<"1">>)))}
FilesB == {<<r>> : r \in RowsB}
            \cup {<<Parsed("ann", D1, "ann@x.org", NULL, 0),
                    Parsed("bob", D1, "bob@x.org", NULL, 2)>>}
OrdersB == {Dialog("ann", D2, "ann@x.org", NULL, 2, NULL)}
NotesB == {NULL}

\* --------------------------------------------------- the tickets table
\* A table without the UNIQUE(name, date) constraint.
Violates_NoConstraint(T, r) == FALSE

\* A constraint that only looks at the rows whose id is null.
Violates_PendingOnly(T, r) == \E q \in T : SameKey(q, r) /\ q.id = None

\* An INSERT ... ON CONFLICT DO UPDATE: the new row replaces the stored one.
INSERT_Upsert(T, r) ==
  [ok |-> TRUE, T |-> {q \in T : ~SameKey(q, r)} \cup {r}]

\* INSERT INTO tickets: the UNIQUE(name, date) constraint rejects a second
\* row with the same key ("duplicate key" error), otherwise the row is added.
Violates(T, r) == \E q \in T : SameKey(q, r)

INSERT(T, r) ==
  IF Violates(T, r) THEN [ok |-> FALSE, T |-> T] ELSE [ok |-> TRUE, T |-> T \cup {r}]

\* A loop that gives up at the first duplicate key error.
RECURSIVE insert_tickets_StopAtDuplicate(_, _)
insert_tickets_StopAtDuplicate(T, ticket_rows) ==
  IF ticket_rows = <<>> THEN [T |-> T, inserted_count |-> 0]
  ELSE LET first == INSERT(T, Head(ticket_rows))
           rest == insert_tickets_StopAtDuplicate(first.T, Tail(ticket_rows))
       IN IF first.ok
          THEN [T |-> rest.T, inserted_count |-> rest.inserted_count + 1]
          ELSE [T |-> T, inserted_count |-> 0]

RECURSIVE insert_tickets(_, _)
insert_tickets(T, ticket_rows) ==
  IF ticket_rows = <<>> THEN [T |-> T, inserted_count |-> 0]
  ELSE LET first == INSERT(T, Head(ticket_rows))
           rest == insert_tickets(first.T, Tail(ticket_rows))
       IN [T |-> rest.T,
           inserted_count |-> rest.inserted_count + (IF first.ok THEN 1 ELSE 0)]

insert_single_order(T, order_data) == INSERT(T, order_data)

\* ------------------------------------------------------- the schema
\* A database is the columns of table tickets ({} while the table does not
\* exist) and its rows.
AllColumns == {"id", "date", "firm", "name", "email", "num_tickets", "achat"}

\* The table of a deployment older than the achat column.
OldColumns == AllColumns \ {"achat"}

\* CREATE TABLE IF NOT EXISTS tickets (...).
CREATE_TABLE(db) ==
  IF db.columns = {} THEN [columns |-> AllColumns, T |-> {}] ELSE db

\* ALTER TABLE tickets ADD COLUMN achat: an error when the column exists,
\* otherwise every row gets the column with a NULL in it.
ALTER_ADD_achat(db) ==
  IF "achat" \in db.columns
  THEN [db |-> db, error |-> "already exists"]
  ELSE [db |-> [columns |-> db.columns \cup {"achat"},
                T |-> {[c \in db.columns \cup {"achat"} |->
                          IF c = "achat" THEN NULL ELSE r[c]] : r \in db.T}],
        error |-> "none"]

\* An ensure_achat_column that lets every error of the ALTER through.
ensure_achat_column_NoCatch(db) ==
  LET e == ALTER_ADD_achat(db)
  IN [db |-> e.db, raised |-> e.error # "none"]

\* ensure_achat_column: the "already exists" error is swallowed.
ensure_achat_column(db) ==
  LET e == ALTER_ADD_achat(db)
  IN [db |-> e.db, raised |-> e.error \notin {"none", "already exists"}]

create_tickets_table(db) == ensure_achat_column(CREATE_TABLE(db))

\* ----------------------------------------------- statements that can fail
\* One INSERT through execute: a store error other than the duplicate key
\* (fault) leaves the table as it is, like the duplicate key error.
execute_INSERT(T, r, fault) ==
  IF fault THEN [T |-> T, error |-> "other"]
  ELSE IF INSERT(T, r).ok THEN [T |-> INSERT(T, r).T, error |-> "none"]
  ELSE [T |-> T, error |-> "duplicate key"]

\* An insert_tickets that answers a store error by deleting the orders of the
\* batch it has got to.
insert_tickets_call_Compensates(T, ticket_rows, fault_at) ==
  IF fault_at \in DOMAIN ticket_rows
  THEN [T |-> {r \in T : \A i \in 1..fault_at : ~SameKey(r, ticket_rows[i])},
        ret |-> None, raised |-> TRUE]
  ELSE [T |-> insert_tickets(T, ticket_rows).T,
        ret |-> insert_tickets(T, ticket_rows).inserted_count, raised |-> FALSE]

\* insert_tickets when the INSERT of row number fault_at (0: of no row) fails
\* with a store error: a duplicate key is swallowed, any other error goes up
\* to the caller.  Every INSERT before it is committed (autocommit).
RECURSIVE insert_tickets_call(_, _, _)
insert_tickets_call(T, ticket_rows, fault_at) ==
  IF ticket_rows = <<>> THEN [T |-> T, ret |-> 0, raised |-> FALSE]
  ELSE LET e == execute_INSERT(T, Head(ticket_rows), fault_at = 1)
           rest == insert_tickets_call(e.T, Tail(ticket_rows), fault_at - 1)
       IN IF e.error = "other" THEN [T |-> e.T, ret |-> None, raised |-> TRUE]
          ELSE IF rest.raised THEN rest
          ELSE [T |-> rest.T, raised |-> FALSE,
                ret |-> rest.ret + (IF e.error = "none" THEN 1 ELSE 0)]

\* An insert_single_order that only catches the duplicate key error.
insert_single_order_call_Propagates(T, order_data, fault) ==
  LET e == execute_INSERT(T, order_data, fault)
  IN [T |-> e.T, ret |-> (e.error = "none"), raised |-> (e.error = "other")]

\* insert_single_order: "except Exception" turns every error into False.
insert_single_order_call(T, order_data, fault) ==
  LET e == execute_INSERT(T, order_data, fault)
  IN [T |-> e.T, ret |-> (e.error = "none"), raised |-> FALSE]

\* ingest_uploaded_file on a file whose parse is ticket_rows.
ingest_uploaded_file(T, ticket_rows) == insert_tickets(T, ticket_rows)

fetch_tickets(T) == T

fetch_orders_with_assigned_ids(T) == {r \in T : r.id # None}

\* The rows WHERE id IS NOT NULL.
Assigned(T) == {r \in T : r.id # None}

\* SELECT MAX(id), MAX(num_tickets): two independent maxima.
get_max_id_and_span_TwoMaxima(T) ==
  LET A == Assigned(T)
  IN IF A = {} THEN {<<None, None>>}
     ELSE {<<m.id, Some(c.num_tickets)>> :
             m \in {x \in A : \A q \in A : Val(q.id) <= Val(x.id)},
             c \in {x \in A : \A q \in A : q.num_tickets <= x.num_tickets}}

\* SELECT id, num_tickets ... WHERE id IS NOT NULL ORDER BY id DESC LIMIT 1:
\* when several rows hold the maximum id the database returns any one of them.
get_max_id_and_span(T) ==
  LET A == Assigned(T)
  IN IF A = {} THEN {<<None, None>>}
     ELSE {<<r.id, Some(r.num_tickets)>> :
             r \in {m \in A : \A q \in A : Val(q.id) <= Val(m.id)}}

\* UPDATE tickets SET id = ... without the WHERE clause.
assign_id_for_row_NoWhere(T, row_date, row_name, new_id) ==
  {[r EXCEPT !.id = Some(new_id)] : r \in T}

assign_id_for_row(T, row_date, row_name, new_id) ==
  {IF r.name = row_name /\ r.date = row_date THEN [r EXCEPT !.id = Some(new_id)] ELSE r :
     r \in T}

update_achat_for_row(T, row_date, row_name, achat_value) ==
  {IF r.name = row_name /\ r.date = row_date THEN [r EXCEPT !.achat = achat_value] ELSE r :
     r \in T}

\* DELETE FROM tickets WHERE date = ...: the name is not looked at.
delete_order_by_name_date_ByDate(T, row_date, row_name) ==
  {r \in T : r.date # row_date}

delete_order_by_name_date(T, row_date, row_name) ==
  {r \in T : ~(r.name = row_name /\ r.date = row_date)}

\* start_id of the "Send email" handler, from one get_max_id_and_span result.
StartId(m) == IF m[1] = None THEN STARTING_TICKET_ID
              ELSE Val(m[1]) + (IF m[2] = None THEN 0 ELSE Val(m[2]))

\* The message send_ticket_email hands to Gmail for one order.
Message(r, ticket_start_id) ==
  [db_email |-> r.email, name |-> r.name, num_tickets |-> r.num_tickets,
   ticket_start_id |-> ticket_start_id,
   ticket_end_id |-> ticket_start_id + r.num_tickets - 1]

\* ------------------------------------------------ the cells of an export
\* A cell of a dataframe is a text (a sequence of tokens: characters, or
\* words that no pattern of the parser cuts), a missing value (NaN, what
\* read_excel and read_csv give for an empty cell) or Python's None.
Text(tokens) == [kind |-> "text", text |-> tokens]
NaN == [kind |-> "NaN", text |-> <<>>]
PyNone == [kind |-> "None", text |-> <<>>]

\* str(x)
str(x) ==
  IF x.kind = "NaN" THEN <<"nan">>
  ELSE IF x.kind = "None" THEN <<"None">>
  ELSE x.text

IsSpace(c) == c = " "

RECURSIVE lstrip(_)
lstrip(text) ==
  IF text # <<>> /\ IsSpace(Head(text)) THEN lstrip(Tail(text)) ELSE text

RECURSIVE rstrip(_)
rstrip(text) ==
  IF text # <<>> /\ IsSpace(text[Len(text)])
  THEN rstrip(SubSeq(text, 1, Len(text) - 1))
  ELSE text

\* text.strip()
strip(text) == rstrip(lstrip(text))

\* text.lower(), token by token.
LowerCase ==
  [Date |-> "date", Article |-> "article", Nom |-> "nom", Email |-> "email",
   Page |-> "page", Message |-> "message", Company |-> "company",
   True |-> "true", Yes |-> "yes"]
lower_token(c) ==
  IF c \in DOMAIN LowerCase THEN LowerCase[c]
  ELSE IF c = "Pré" THEN "pré"
  ELSE IF c \in {"E-Mail", "E-mail"} THEN "e-mail"
  ELSE IF c = "Ann@x.org" THEN "ann@x.org"
  ELSE c
lower(text) == [i \in DOMAIN text |-> lower_token(text[i])]

\* pattern in text
Contains(text, pattern) ==
  \E i \in 1..(Len(text) - Len(pattern) + 1) :
    SubSeq(text, i, i + Len(pattern) - 1) = pattern

\* " ".join(texts)
RECURSIVE join(_)
join(texts) ==
  IF texts = <<>> THEN <<>>
  ELSE IF Len(texts) = 1 THEN texts[1]
  ELSE texts[1] \o <<" ">> \o join(Tail(texts))

\* Timestamps are the positions of DateTexts; NaT is the missing timestamp.
DateTexts == <<"2025-08-31", "2025-09-01", "2025-09-15">>
Formatted == <<"2025-08-31 00:00:00", D1, D2>>
NaT == 0

\* pd.to_datetime(x): a missing value gives NaT (None gives None, standing
\* for NaT in a column), a date text its timestamp; any other text raises.
to_datetime(x) ==
  IF x.kind # "text" THEN [raised |-> FALSE, ts |-> NaT]
  ELSE IF \E i \in DOMAIN DateTexts : x.text = <<DateTexts[i]>>
  THEN [raised |-> FALSE,
        ts |-> CHOOSE i \in DOMAIN DateTexts : x.text = <<DateTexts[i]>>]
  ELSE [raised |-> TRUE, ts |-> NaT]

\* ts.strftime("%Y-%m-%d %H:%M:%S"); NaT and None have no strftime.
strftime(ts) ==
  IF ts = NaT THEN [raised |-> TRUE, text |-> ""]
  ELSE [raised |-> FALSE, text |-> Formatted[ts]]

\* ------------------------------------------------------ parse_dataframe
\* The article names the parser is constructed with.
article_name_type1 == <<"Raffle ticket">>
article_name_type2 == <<"Tikkie">>

\* df[df["article"] == article_name]
ArticleFilter(df, file_type) ==
  LET article_name ==
        IF file_type = "type1" THEN article_name_type1 ELSE article_name_type2
  IN SelectSeq(df, LAMBDA r : r.article = Text(article_name))

\* text or None
or_None(text) == IF text = <<>> THEN None ELSE Some(text)

\* The name of the order of row r.
customer_name(r, file_type) ==
  IF file_type = "type1"
  THEN strip(strip(str(r.last_name)) \o <<" ">> \o strip(str(r.first_name)))
  ELSE strip(str(r.last_name))

\* The loop over the rows that passed the filters: a row without a digit in
\* its variant text is skipped; an exception ends the call.
RECURSIVE emit_rows(_, _)
emit_rows(df, file_type) ==
  IF df = <<>> THEN [raised |-> FALSE, rows |-> <<>>]
  ELSE LET r == Head(df)
           num_tickets == num_tickets_of(str(r.declinaison))
           when == to_datetime(r.date)
           rest == emit_rows(Tail(df), file_type)
       IN IF num_tickets = None THEN rest
          ELSE IF when.raised \/ strftime(when.ts).raised \/ rest.raised
          THEN [raised |-> TRUE, rows |-> <<>>]
          ELSE [raised |-> FALSE,
                rows |-> <<Parsed(customer_name(r, file_type),
                                  strftime(when.ts).text,
                                  strip(str(r.email)),
                                  or_None(strip(str(r.firm))),
                                  Val(num_tickets))>> \o rest.rows]

\* parse_dataframe(df, min_date, file_type).  A dataframe without rows has
\* no column "article" (KeyError); with a min_date the whole date column of
\* the article's rows is converted first.
parse_dataframe(df, min_date, file_type) ==
  IF df = <<>> THEN [raised |-> TRUE, rows |-> <<>>]
  ELSE LET selected == ArticleFilter(df, file_type)
       IN IF min_date = None THEN emit_rows(selected, file_type)
          ELSE IF \E i \in DOMAIN selected : to_datetime(selected[i].date).raised
          THEN [raised |-> TRUE, rows |-> <<>>]
          ELSE emit_rows(
                 SelectSeq(selected,
                           LAMBDA r : LET ts == to_datetime(r.date).ts
                                      IN ts # NaT /\ ts >= Val(min_date)),
                 file_type)

\* ----------------------------------------------------------- parse_file
\* An uploaded file is [kind |-> "xlsx" or "csv", rows |-> its rows]; a row
\* is a sequence of cells, all rows of a file as wide as its first one.
\* A dataframe is [raised, ncols, rows].
Width(file_rows) == IF file_rows = <<>> THEN 0 ELSE Len(file_rows[1])

RECURSIVE Drop(_, _)
Drop(seq, n) == IF n = 0 \/ seq = <<>> THEN seq ELSE Drop(Tail(seq), n - 1)

\* pd.read_excel(file_input, skiprows=list(range(n))): the first row that
\* is left gives the column names, the rows after it are the data.
read_excel(file_input, n) ==
  LET left == Drop(file_input.rows, n)
  IN [raised |-> FALSE, ncols |-> Width(left),
      rows |-> IF left = <<>> THEN <<>> ELSE Tail(left)]

\* pd.read_csv(file_input, skiprows=list(range(n)), header=None): every row
\* that is left is data; with no row left it raises EmptyDataError.
read_csv(file_input, n) ==
  LET left == Drop(file_input.rows, n)
  IN [raised |-> left = <<>>, ncols |-> Width(left), rows |-> left]

\* read_excel first, read_csv when that fails.
read(file_input, n) ==
  IF file_input.kind = "xlsx" THEN read_excel(file_input, n)
  ELSE read_csv(file_input, n)

type1_columns ==
  << <<"article">>,
     <<"date", " ", "de", " ", "commande">>,
     <<"nom", " ", "pour", " ", "facturation">>,
     <<"pré", "nom", " ", "pour", " ", "facturation">>,
     <<"email", " ", "pour", " ", "facturation">> >>
type2_columns ==
  << <<"page">>, <<"date">>, <<"nom">>, <<"e-mail">>, <<"message">>, <<"company">> >>

ScanRows == 10
Type1Threshold == 4
Type2Threshold == 3

\* " ".join(df.iloc[i].astype(str).str.lower().tolist())
row_text(r) == join([i \in DOMAIN r |-> lower(str(r[i]))])

\* sum(1 for col in cols if col.lower() in row_text)
matches(cols, text) ==
  Cardinality({i \in DOMAIN cols : Contains(text, lower(cols[i]))})

Min(a, b) == IF a <= b THEN a ELSE b

\* A search that tests the type2 titles first.
RECURSIVE find_header_Type2First(_, _)
find_header_Type2First(df_rows, i) ==
  IF i >= Min(ScanRows, Len(df_rows))
  THEN [header_row_index |-> None, file_type |-> "None"]
  ELSE LET text == row_text(df_rows[i + 1])
       IN IF matches(type2_columns, text) >= Type2Threshold
          THEN [header_row_index |-> Some(i), file_type |-> "type2"]
          ELSE IF matches(type1_columns, text) >= Type1Threshold
          THEN [header_row_index |-> Some(i), file_type |-> "type1"]
          ELSE find_header_Type2First(df_rows, i + 1)

\* The search for the header from row i of the dataframe on.
RECURSIVE find_header(_, _)
find_header(df_rows, i) ==
  IF i >= Min(ScanRows, Len(df_rows))
  THEN [header_row_index |-> None, file_type |-> "None"]
  ELSE LET text == row_text(df_rows[i + 1])
       IN IF matches(type1_columns, text) >= Type1Threshold
          THEN [header_row_index |-> Some(i), file_type |-> "type1"]
          ELSE IF matches(type2_columns, text) >= Type2Threshold
          THEN [header_row_index |-> Some(i), file_type |-> "type2"]
          ELSE find_header(df_rows, i + 1)

\* ------------------------------------------- _create_unified_dataframe
column_mappings ==
  [type1 |-> [article |-> "Article", date |-> "Date de commande",
              last_name |-> "Nom pour facturation",
              first_name |-> "Prénom pour facturation",
              email |-> "Email pour facturation",
              declinaison |-> "Déclinaison",
              firm |-> "Entreprise pour facturation"],
   type2 |-> [article |-> "Page", date |-> "Date", last_name |-> "Nom",
              first_name |-> NULL, email |-> "Message",
              declinaison |-> "Company", firm |-> "E-mail"]]

type1_names ==
  <<"N°", "N° d'article", "Date de commande", "Mode de paiement", "Article",
    "Déclinaison", "Prix à l'unité net", "Prix net", "Prix brut", "Devise",
    "Date d'envoi", "Entreprise pour facturation", "Titre pour facturation",
    "Nom pour facturation", "Prénom pour facturation",
    "Email pour facturation", "Remarque (facture)",
    "N° TVA Intracommunautaire", "Date de naissance", "Numéro client",
    "Entreprise pour livraison", "Titre pour livraison", "Nom pour livraison",
    "Deuxième prénom pour livraison", "Prénom pour livraison",
    "Complément d'adresse (livraison)", "Rue pour livraison",
    "Code postal pour livraison", "Ville pour livraison",
    "Région/province pour livraison", "Pays pour livraison",
    "Téléphone pour livraison", "E-Mail pour livraison",
    "Remarque (livraison)">>
type2_names == <<"Date", "Page", "Nom", "E-mail", "Message", "Company">>
\* f"Extra_{i}"
Extra(i) == "Extra_" \o ToString(i)

fixed_names(file_type) == IF file_type = "type1" THEN type1_names ELSE type2_names

\* The list assigned to df.columns.
column_names(ncols, file_type) ==
  LET extra == ncols - Len(fixed_names(file_type))
  IN fixed_names(file_type)
       \o (IF extra > 0 THEN [i \in 1..extra |-> Extra(i - 1)] ELSE <<>>)

\* _create_unified_dataframe(df, file_type): assigning df.columns raises
\* ValueError when the list is not as long as the dataframe is wide.
create_unified_dataframe(df, file_type) ==
  LET names == column_names(df.ncols, file_type)
      mapping == column_mappings[file_type]
      unified_row(r) ==
        [field \in DOMAIN mapping |->
           IF mapping[field] # NULL /\ \E i \in DOMAIN names : names[i] = mapping[field]
           THEN r[CHOOSE i \in DOMAIN names : names[i] = mapping[field]]
           ELSE PyNone]
  IN IF Len(names) # df.ncols THEN [raised |-> TRUE, rows |-> <<>>]
     ELSE [raised |-> FALSE,
           rows |-> [k \in DOMAIN df.rows |-> unified_row(df.rows[k])]]

\* ------------------------------------------------- the uploaded files
MaxBatch == 2       \* data rows of a file
MaxTextLen == 3     \* tokens of a text that runs through every value
MaxOffset == 11     \* rows of a file before its header row

\* The tokens of the column titles in which a pattern of the search occurs.
TitleTokens ==
  ("N° d'article" :> <<"N° d'", "article">>)
  @@ ("Date de commande" :> <<"Date", " ", "de", " ", "commande">>)
  @@ ("Date d'envoi" :> <<"Date", " d'envoi">>)
  @@ ("Date de naissance" :> <<"Date", " de naissance">>)
  @@ ("Nom pour facturation" :> <<"Nom", " ", "pour", " ", "facturation">>)
  @@ ("Prénom pour facturation" :> <<"Pré", "nom", " ", "pour", " ", "facturation">>)
  @@ ("Email pour facturation" :> <<"Email", " ", "pour", " ", "facturation">>)
  @@ ("Nom pour livraison" :> <<"Nom", " pour livraison">>)
  @@ ("Deuxième prénom pour livraison" :> <<"Deuxième ", "pré", "nom", " pour livraison">>)
  @@ ("Prénom pour livraison" :> <<"Pré", "nom", " pour livraison">>)
  @@ ("E-Mail pour livraison" :> <<"E-Mail", " pour livraison">>)
Title(name) ==
  Text(IF name \in DOMAIN TitleTokens THEN TitleTokens[name] ELSE <<name>>)

\* The row of a file that holds the titles `names`, padded to ncols cells.
TitleRow(names, ncols) ==
  [i \in 1..ncols |-> IF i <= Len(names) THEN Title(names[i]) ELSE NaN]

\* A row above the header of an export.
JunkRow(ncols) == [i \in 1..ncols |-> IF i = 1 THEN Text(<<"Export">>) ELSE NaN]

\* The file row of an order: each cell under the column its field is read from.
DataRow(order, file_type, ncols) ==
  LET names == column_names(ncols, file_type)
      mapping == column_mappings[file_type]
  IN [i \in 1..ncols |->
        IF \E field \in DOMAIN mapping : mapping[field] = names[i]
        THEN order[CHOOSE field \in DOMAIN mapping : mapping[field] = names[i]]
        ELSE NaN]

Order(article, date, last_name, first_name, email, declinaison, firm) ==
  [article |-> article, date |-> date, last_name |-> last_name,
   first_name |-> first_name, email |-> email, declinaison |-> declinaison,
   firm |-> firm]

\* -------------------------------------------------------------- state
VARIABLES
  tickets,              \* the rows of table tickets
  pc,                   \* per session: where its script run stands
  row,                  \* per session: the row whose button started the run
  start_id,             \* per session: the start_id the Send handler computed
  sent,                 \* per session: the message delivered in this run
  delete_confirmation,  \* per session: st.session_state["delete_confirmation"]
  flash_error,          \* per session: "flash_error" in st.session_state
  render,               \* where the page load that is followed list by list stands
  orders_without_id,    \* its pending list
  orders_with_id,       \* its assigned list
  last_call,            \* the last call of the store's interface and its result
  deleted_assigned,     \* whether a row with a non-null id was ever deleted
  used,                 \* the connections checked out of the pool (pool._used)
  connection,           \* per client object: self.connection
  block,                \* per client object: where its with-block stands
  columns,              \* the columns of table tickets, {} while it does not exist
  parse,                \* the call of parse_file that is followed: its locals
  auth,                 \* one browser session: its st.session_state and query params
  cls                   \* class PostgresClient and the threads inside its classmethods

vars == <<tickets, pc, row, start_id, sent, delete_confirmation, flash_error, render,
          orders_without_id, orders_with_id, last_call, deleted_assigned,
          used, connection, block, columns, parse, auth, cls>>

pageVars == <<render, orders_without_id, orders_with_id>>

poolVars == <<used, connection, block>>

logVars == <<last_call, deleted_assigned>>

sessVars == <<pc, row, start_id, sent, delete_confirmation, flash_error>>

\* The variables of the dashboard and its store.
storeVars == <<tickets, pc, row, start_id, sent, delete_confirmation, flash_error,
               render, orders_without_id, orders_with_id, last_call,
               deleted_assigned, used, connection, block, columns>>

appVars == <<storeVars, auth, cls>>

NoFrame == [raised |-> FALSE, ncols |-> 0, rows |-> <<>>]

\* parse_file(file_input, min_date) at its first statement.
StartParse(file_input, min_date) ==
  [pc |-> "start", file_input |-> file_input, min_date |-> min_date,
   df |-> NoFrame, header_row_index |-> None, file_type |-> "None",
   unified_df |-> <<>>, rows |-> <<>>, raised_by |-> "None"]

\* No call of parse_file is followed.  (pc "raised": the call ended with an
\* exception, raised_by names the function that raised it.)
NoParse == [StartParse([kind |-> "csv", rows |-> <<>>], None) EXCEPT !.pc = "idle"]

\* No argument, no return value.
Void == [void |-> TRUE]

\* A browser session that has not been to the login page; AUTHORIZED_EMAILS
\* is not set.
NoAuth ==
  [AUTHORIZED_EMAILS |-> None, google_auth_token |-> None, code |-> None,
   message |-> "none", dashboard |-> FALSE]

\* The threads of the process.
Threads == {"t1", "t2"}

\* Class PostgresClient after import: no pool, the lock free, no thread inside
\* a classmethod (created counts the SimpleConnectionPool objects constructed).
NoPool ==
  [_pool |-> None, _lock |-> None, created |-> 0,
   th |-> [t \in Threads |-> [pc |-> "idle", ret |-> None, reset |-> FALSE]]]

NoCall ==
  [fn |-> "none", arg |-> Void, ret |-> Void, again |-> FALSE, raised |-> FALSE,
   retry |-> FALSE, before |-> {}]

Init ==
  /\ tickets = {}
  /\ pc = [s \in Sessions |-> "idle"]
  /\ row = [s \in Sessions |-> {}]
  /\ start_id = [s \in Sessions |-> None]
  /\ sent = [s \in Sessions |-> {}]
  /\ delete_confirmation = [s \in Sessions |-> {}]
  /\ flash_error = [s \in Sessions |-> FALSE]
  /\ render = "idle"
  /\ orders_without_id = {}
  /\ orders_with_id = {}
  /\ last_call = NoCall
  /\ deleted_assigned = FALSE
  /\ used = {}
  /\ connection = [c \in Sessions |-> None]
  /\ block = [c \in Sessions |-> "outside"]
  /\ parse = NoParse
  /\ auth = NoAuth
  /\ cls = NoPool
  /\ columns = AllColumns

\* st.rerun() / end of the script run: the run's locals are gone.
EndRun(s) ==
  /\ pc' = [pc EXCEPT ![s] = "idle"]
  /\ row' = [row EXCEPT ![s] = {}]
  /\ start_id' = [start_id EXCEPT ![s] = None]
  /\ sent' = [sent EXCEPT ![s] = {}]

\* The top of a script run: a pending flash_error is popped and shown.
StartRun(s) == flash_error' = [flash_error EXCEPT ![s] = FALSE]

\* No dialog of the session is open (a dialog is modal).
NoDialog(s) == delete_confirmation[s] = {}

\* "Ingest into database": ingest_uploaded_file on the uploaded file.
Ingest(s, files) ==
  /\ pc[s] = "idle" /\ NoDialog(s)
  /\ StartRun(s)
  /\ \E f \in files : tickets' = ingest_uploaded_file(tickets, f).T
  /\ UNCHANGED <<columns, parse, auth, cls, poolVars, pc, row, start_id, sent, delete_confirmation, pageVars, logVars>>

\* add_order_dialog, submitted with a name and an email.
AddOrder(s, orders) ==
  /\ pc[s] = "idle" /\ NoDialog(s)
  /\ StartRun(s)
  /\ \E order_data \in orders : tickets' = insert_single_order(tickets, order_data).T
  /\ UNCHANGED <<columns, parse, auth, cls, poolVars, pc, row, start_id, sent, delete_confirmation, pageVars, logVars>>

\* A run started by a button of the pending table: the first query of main,
\* filtered on id is None; row is the list element at the button's index.
FetchPending(s) ==
  /\ pc[s] = "idle" /\ NoDialog(s)
  /\ StartRun(s)
  /\ \E r \in {q \in fetch_tickets(tickets) : q.id = None} :
       row' = [row EXCEPT ![s] = {r}]
  /\ pc' = [pc EXCEPT ![s] = "rendered"]
  /\ UNCHANGED <<columns, parse, auth, cls, poolVars, tickets, start_id, sent, delete_confirmation, pageVars, logVars>>

\* A run started by a button of the assigned table: the second query of main.
FetchAssigned(s) ==
  /\ pc[s] = "idle" /\ NoDialog(s)
  /\ StartRun(s)
  /\ \E r \in fetch_orders_with_assigned_ids(tickets) :
       row' = [row EXCEPT ![s] = {r}]
  /\ pc' = [pc EXCEPT ![s] = "rendered"]
  /\ UNCHANGED <<columns, parse, auth, cls, poolVars, tickets, start_id, sent, delete_confirmation, pageVars, logVars>>

\* "Save" next to a row of either table.
SaveAchat(s, notes) ==
  /\ pc[s] = "rendered"
  /\ \E r \in row[s], achat_val \in notes :
       tickets' = update_achat_for_row(tickets, r.date, r.name, achat_val)
  /\ EndRun(s)
  /\ UNCHANGED <<columns, parse, auth, cls, poolVars, flash_error, delete_confirmation, pageVars, logVars>>

\* "Send email", up to the computation of start_id.
SendAllocate(s) ==
  /\ pc[s] = "rendered"
  /\ \E r \in row[s], m \in get_max_id_and_span(tickets) :
       /\ r.id = None
       /\ StartId(m) + r.num_tickets - 1 <= MaxTicketId
       /\ start_id' = [start_id EXCEPT ![s] = Some(StartId(m))]
  /\ pc' = [pc EXCEPT ![s] = "allocated"]
  /\ UNCHANGED <<columns, parse, auth, cls, poolVars, flash_error, tickets, row, sent, delete_confirmation, pageVars, logVars>>

\* A Send handler that goes on to the assignment without a delivered email.
SendEmail_NotDelivered(s) ==
  /\ pc[s] = "allocated"
  /\ pc' = [pc EXCEPT ![s] = "mailed"]
  /\ UNCHANGED <<columns, parse, auth, cls, poolVars, tickets, row, start_id, sent, delete_confirmation, flash_error,
                 pageVars, logVars>>

\* A Send handler that assigns the id although the email raised.
SendEmailFails_Assigns(s) ==
  /\ pc[s] = "allocated"
  /\ flash_error' = [flash_error EXCEPT ![s] = TRUE]
  /\ \E r \in row[s] :
       tickets' = assign_id_for_row(tickets, r.date, r.name, Val(start_id[s]))
  /\ EndRun(s)
  /\ UNCHANGED <<columns, parse, auth, cls, poolVars, delete_confirmation, pageVars, logVars>>

\* send_ticket_email returns.
SendEmail(s) ==
  /\ pc[s] = "allocated"
  /\ pc' = [pc EXCEPT ![s] = "mailed"]
  /\ sent' = [sent EXCEPT ![s] = {Message(r, Val(start_id[s])) : r \in row[s]}]
  /\ UNCHANGED <<columns, parse, auth, cls, poolVars, flash_error, tickets, row, start_id, delete_confirmation, pageVars, logVars>>

\* send_ticket_email raises: flash_error, st.rerun().
SendEmailFails(s) ==
  /\ pc[s] = "allocated"
  /\ flash_error' = [flash_error EXCEPT ![s] = TRUE]
  /\ EndRun(s)
  /\ UNCHANGED <<columns, parse, auth, cls, poolVars, tickets, delete_confirmation, pageVars, logVars>>

\* "On success, assign id".
SendAssign(s) ==
  /\ pc[s] = "mailed"
  /\ \E r \in row[s] :
       tickets' = assign_id_for_row(tickets, r.date, r.name, Val(start_id[s]))
  /\ EndRun(s)
  /\ UNCHANGED <<columns, parse, auth, cls, poolVars, flash_error, delete_confirmation, pageVars, logVars>>

\* "Resend" on a row of the assigned table: the email goes out or raises.
Resend(s) ==
  /\ pc[s] = "rendered"
  /\ \E raised \in BOOLEAN : flash_error' = [flash_error EXCEPT ![s] = raised]
  /\ \E r \in row[s] : r.id # None
  /\ EndRun(s)
  /\ UNCHANGED <<columns, parse, auth, cls, poolVars, tickets, delete_confirmation, pageVars, logVars>>

\* The delete button of a pending row: store the order for confirmation.
DeleteButton(s) ==
  /\ pc[s] = "rendered"
  /\ \E r \in row[s] :
       /\ r.id = None
       /\ delete_confirmation' =
            [delete_confirmation EXCEPT ![s] =
               {[name |-> r.name, date |-> r.date, email |-> r.email,
                 num_tickets |-> r.num_tickets]}]
  /\ EndRun(s)
  /\ UNCHANGED <<columns, parse, auth, cls, poolVars, flash_error, tickets, pageVars, logVars>>

\* delete_confirmation_dialog, "Delete Order".
ConfirmDelete(s) ==
  /\ pc[s] = "idle"
  /\ StartRun(s)
  /\ \E order_info \in delete_confirmation[s] :
       tickets' = delete_order_by_name_date(tickets, order_info.date, order_info.name)
  /\ delete_confirmation' = [delete_confirmation EXCEPT ![s] = {}]
  /\ deleted_assigned' = (deleted_assigned \/ Assigned(tickets) # Assigned(tickets'))
  /\ UNCHANGED <<columns, parse, auth, cls, poolVars, pc, row, start_id, sent, pageVars, last_call>>

\* delete_confirmation_dialog, "Cancel".
CancelDelete(s) ==
  /\ pc[s] = "idle"
  /\ StartRun(s)
  /\ delete_confirmation[s] # {}
  /\ delete_confirmation' = [delete_confirmation EXCEPT ![s] = {}]
  /\ UNCHANGED <<columns, parse, auth, cls, poolVars, tickets, pc, row, start_id, sent, pageVars, logVars>>

\* ------------------------------------------- the concurrent dashboard
Next ==
  \E s \in Sessions :
    \/ Ingest(s, FilesA)
    \/ AddOrder(s, OrdersA)
    \/ FetchPending(s)
    \/ FetchAssigned(s)
    \/ SaveAchat(s, NotesA)
    \/ SendAllocate(s)
    \/ SendEmail(s)
    \/ SendEmailFails(s)
    \/ SendAssign(s)
    \/ Resend(s)
    \/ DeleteButton(s)
    \/ ConfirmDelete(s)
    \/ CancelDelete(s)

Spec == Init /\ [][Next]_vars

\* ------------------------------------------- the serialized dashboard
\* One script run at a time: a session steps only while every other session
\* is between two runs.
Serial(s) == \A t \in Sessions \ {s} : pc[t] = "idle"

SeqNext ==
  \E s \in Sessions :
    \/ Serial(s) /\ Ingest(s, FilesB)
    \/ Serial(s) /\ AddOrder(s, OrdersB)
    \/ Serial(s) /\ FetchPending(s)
    \/ Serial(s) /\ FetchAssigned(s)
    \/ Serial(s) /\ SaveAchat(s, NotesB)
    \/ Serial(s) /\ SendAllocate(s)
    \/ Serial(s) /\ SendEmail(s)
    \/ Serial(s) /\ SendEmailFails(s)
    \/ Serial(s) /\ SendAssign(s)
    \/ Serial(s) /\ Resend(s)
    \/ Serial(s) /\ DeleteButton(s)
    \/ Serial(s) /\ ConfirmDelete(s)
    \/ Serial(s) /\ CancelDelete(s)

SeqSpec == Init /\ [][SeqNext]_vars

\* ------------------------------------------------ one page load, list by list
PageFetchPending ==
  /\ render = "idle"
  /\ render' = "fetching"
  /\ orders_without_id' = {r \in fetch_tickets(tickets) : r.id = None}
  /\ UNCHANGED <<columns, parse, auth, cls, poolVars, tickets, sessVars, orders_with_id, logVars>>

PageFetchAssigned ==
  /\ render = "fetching"
  /\ render' = "rendered"
  /\ orders_with_id' = fetch_orders_with_assigned_ids(tickets)
  /\ UNCHANGED <<columns, parse, auth, cls, poolVars, tickets, sessVars, orders_without_id, logVars>>

PageEnd ==
  /\ render = "rendered"
  /\ render' = "idle"
  /\ orders_without_id' = {}
  /\ orders_with_id' = {}
  /\ UNCHANGED <<columns, parse, auth, cls, poolVars, tickets, sessVars, logVars>>

\* The page load of one session against the statements of another; once both
\* lists are fetched nothing that happens later is part of this page.
Other(s) ==
  /\ render # "rendered"
  /\ \/ Ingest(s, FilesA)
     \/ AddOrder(s, OrdersA)
     \/ FetchPending(s)
     \/ FetchAssigned(s)
     \/ SaveAchat(s, NotesA)
     \/ SendAllocate(s)
     \/ SendEmail(s)
     \/ SendEmailFails(s)
     \/ SendAssign(s)
     \/ Resend(s)
     \/ DeleteButton(s)
     \/ ConfirmDelete(s)
     \/ CancelDelete(s)

RenderNext ==
  \/ PageFetchPending
  \/ PageFetchAssigned
  \/ PageEnd
  \/ Other("s2")

RenderSpec == Init /\ [][RenderNext]_vars

\* ------------------------------------------------ the store's interface
\* Any sequence of calls, whichever session makes them.
Call(fn, arg, ret) ==
  [fn |-> fn, arg |-> arg, ret |-> ret,
   again |-> last_call.fn = fn /\ last_call.arg = arg, raised |-> FALSE,
   retry |-> FALSE, before |-> {}]

CallInsertTickets ==
  \E f \in FilesA :
    LET res == insert_tickets(tickets, f)
    IN /\ tickets' = res.T
       /\ last_call' = Call("insert_tickets", [ticket_rows |-> f],
                           [inserted_count |-> res.inserted_count])
       /\ UNCHANGED <<columns, parse, auth, cls, poolVars, sessVars, pageVars, deleted_assigned>>

CallInsertSingleOrder ==
  \E order_data \in OrdersA :
    LET res == insert_single_order(tickets, order_data)
    IN /\ tickets' = res.T
       /\ last_call' = Call("insert_single_order", [order_data |-> order_data],
                           [ok |-> res.ok])
       /\ UNCHANGED <<columns, parse, auth, cls, poolVars, sessVars, pageVars, deleted_assigned>>

CallUpdateAchat ==
  \E k \in KeysA, achat_value \in NotesA :
    /\ tickets' = update_achat_for_row(tickets, k[2], k[1], achat_value)
    /\ last_call' = Call("update_achat_for_row",
                        [row_date |-> k[2], row_name |-> k[1],
                         achat_value |-> achat_value], Void)
    /\ UNCHANGED <<columns, parse, auth, cls, poolVars, sessVars, pageVars, deleted_assigned>>

CallAssignId ==
  \E k \in KeysA, new_id \in 1..MaxTicketId :
    /\ tickets' = assign_id_for_row(tickets, k[2], k[1], new_id)
    /\ last_call' = Call("assign_id_for_row",
                        [row_date |-> k[2], row_name |-> k[1], new_id |-> new_id], Void)
    /\ UNCHANGED <<columns, parse, auth, cls, poolVars, sessVars, pageVars, deleted_assigned>>

CallDelete ==
  \E k \in KeysA :
    /\ tickets' = delete_order_by_name_date(tickets, k[2], k[1])
    /\ last_call' = Call("delete_order_by_name_date",
                        [row_date |-> k[2], row_name |-> k[1]], Void)
    /\ deleted_assigned' = (deleted_assigned \/ Assigned(tickets) # Assigned(tickets'))
    /\ UNCHANGED <<columns, parse, auth, cls, poolVars, sessVars, pageVars>>

StoreNext ==
  \/ CallInsertTickets
  \/ CallInsertSingleOrder
  \/ CallUpdateAchat
  \/ CallAssignId
  \/ CallDelete

StoreSpec == Init /\ [][StoreNext]_vars

\* ------------------------------------- the store's interface, with errors
\* The calls of the store's interface when a statement may fail with a store
\* error (connection lost, statement timeout, ...).
FaultInsertTickets ==
  \E f \in FilesA : \E fault_at \in 0..Len(f) :
    LET res == insert_tickets_call(tickets, f, fault_at)
        call == Call("insert_tickets", [ticket_rows |-> f],
                     IF res.raised THEN Void ELSE [inserted_count |-> res.ret])
        \* the same file again after an import of it that raised
        retry == call.again /\ last_call.raised
    IN /\ tickets' = res.T
       /\ last_call' =
            [call EXCEPT
               !.raised = res.raised,
               !.retry = retry,
               !.before = IF retry THEN last_call.before
                          ELSE IF res.raised THEN tickets ELSE {}]
       /\ UNCHANGED <<columns, parse, auth, cls, poolVars, sessVars, pageVars, deleted_assigned>>

FaultInsertSingleOrder ==
  \E order_data \in OrdersA, fault \in BOOLEAN :
    LET res == insert_single_order_call(tickets, order_data, fault)
    IN /\ tickets' = res.T
       /\ last_call' =
            [Call("insert_single_order", [order_data |-> order_data],
                  [ok |-> res.ret]) EXCEPT
               !.raised = res.raised]
       /\ UNCHANGED <<columns, parse, auth, cls, poolVars, sessVars, pageVars, deleted_assigned>>

FaultNext ==
  \/ FaultInsertTickets
  \/ FaultInsertSingleOrder
  \/ CallUpdateAchat
  \/ CallAssignId
  \/ CallDelete

FaultSpec == Init /\ [][FaultNext]_vars

\* ------------------------------------------------ databases of any age
\* The tables a deployment may hold when the program starts.
StoredRows == RowsA \cup {[r EXCEPT !.id = Some(1)] : r \in RowsA}
Tables == {T \in SUBSET StoredRows : \A r \in T, q \in T : SameKey(r, q) => r = q}

\* The program starts on a fresh database, on a table without the achat
\* column or on an up-to-date table.
SchemaInit ==
  /\ columns \in {{}, OldColumns, AllColumns}
  /\ tickets \in IF columns = {} THEN {{}}
                 ELSE {{[c \in columns |-> r[c]] : r \in T} : T \in Tables}
  /\ pc = [s \in Sessions |-> "idle"]
  /\ row = [s \in Sessions |-> {}]
  /\ start_id = [s \in Sessions |-> None]
  /\ sent = [s \in Sessions |-> {}]
  /\ delete_confirmation = [s \in Sessions |-> {}]
  /\ flash_error = [s \in Sessions |-> FALSE]
  /\ render = "idle"
  /\ orders_without_id = {}
  /\ orders_with_id = {}
  /\ last_call = NoCall
  /\ deleted_assigned = FALSE
  /\ used = {}
  /\ connection = [c \in Sessions |-> None]
  /\ block = [c \in Sessions |-> "outside"]
  /\ parse = NoParse
  /\ auth = NoAuth
  /\ cls = NoPool

CallCreateTicketsTable ==
  LET res == create_tickets_table([columns |-> columns, T |-> tickets])
  IN /\ columns' = res.db.columns
     /\ tickets' = res.db.T
     /\ last_call' =
          [Call("create_tickets_table", Void, Void) EXCEPT
             !.raised = res.raised,
             !.before = tickets]
     /\ UNCHANGED <<parse, auth, cls, poolVars, sessVars, pageVars, deleted_assigned>>

\* create_tickets_table at any time; the other calls once the table is there
\* (every with-block of the program starts with create_tickets_table).
SchemaNext ==
  \/ CallCreateTicketsTable
  \/ columns = AllColumns /\ CallInsertSingleOrder
  \/ columns = AllColumns /\ CallUpdateAchat
  \/ columns = AllColumns /\ CallAssignId

SchemaSpec == SchemaInit /\ [][SchemaNext]_vars

\* ------------------------------------------------- the connection pool
\* "with PostgresClient() as db: ..." run by client c: a new client object
\* (connection None), __enter__ -> connect, the body, __exit__ -> close.
\* connect, first statement: pool.getconn().
Getconn(c) ==
  /\ block[c] = "outside"
  /\ \E conn \in (1..MaxConn) \ used :
       /\ used' = used \cup {conn}
       /\ connection' = [connection EXCEPT ![c] = Some(conn)]
  /\ block' = [block EXCEPT ![c] = "connecting"]
  /\ UNCHANGED <<columns, parse, auth, cls, tickets, sessVars, pageVars, logVars>>

\* pool.getconn() raises (pool exhausted, server unreachable): nothing was
\* checked out and __enter__ raises.
GetconnRaises(c) ==
  /\ block[c] = "outside"
  /\ block' = [block EXCEPT ![c] = "failed"]
  /\ UNCHANGED <<columns, parse, auth, cls, tickets, sessVars, pageVars, logVars, used, connection>>

\* connect, second statement: self.connection.autocommit = True.
SetAutocommit(c) ==
  /\ block[c] = "connecting"
  /\ block' = [block EXCEPT ![c] = "body"]
  /\ UNCHANGED <<columns, parse, auth, cls, tickets, sessVars, pageVars, logVars, used, connection>>

\* The assignment raises (the connection is closed or broken): __enter__
\* raises, so the with statement never calls __exit__; the client object is
\* dropped with the connection it holds.
SetAutocommitRaises(c) ==
  /\ block[c] = "connecting"
  /\ block' = [block EXCEPT ![c] = "failed"]
  /\ UNCHANGED <<columns, parse, auth, cls, tickets, sessVars, pageVars, logVars, used, connection>>

\* close(): the connection goes back to the pool.
close(c) ==
  /\ used' = IF connection[c] = None THEN used ELSE used \ {Val(connection[c])}
  /\ connection' = [connection EXCEPT ![c] = None]

\* The body ends or raises: __exit__ -> close.
Exit(c) ==
  /\ block[c] = "body"
  /\ close(c)
  /\ block' = [block EXCEPT ![c] = "outside"]
  /\ UNCHANGED <<columns, parse, auth, cls, tickets, sessVars, pageVars, logVars>>

\* The caller has handled the exception of __enter__; its next with-block
\* makes a new client object.
NewClient(c) ==
  /\ block[c] = "failed"
  /\ block' = [block EXCEPT ![c] = "outside"]
  /\ connection' = [connection EXCEPT ![c] = None]
  /\ UNCHANGED <<columns, parse, auth, cls, tickets, sessVars, pageVars, logVars, used>>

\* A statement of the body.
Statement(c) ==
  /\ block[c] = "body"
  /\ \/ CallInsertSingleOrder
     \/ CallAssignId
     \/ CallDelete

PoolNext ==
  \E c \in Sessions :
    \/ Getconn(c)
    \/ GetconnRaises(c)
    \/ SetAutocommit(c)
    \/ SetAutocommitRaises(c)
    \/ Statement(c)
    \/ Exit(c)
    \/ NewClient(c)

PoolSpec == Init /\ [][PoolNext]_vars

\* ------------------------------------------------------ one parse_file call
\* The texts of at most n tokens of an alphabet.
Texts(alphabet, n) == UNION {[1..k -> alphabet] : k \in 0..n}

Day(i) == Text(<<DateTexts[i]>>)
Article(file_type) ==
  Text(IF file_type = "type1" THEN article_name_type1 ELSE article_name_type2)
Pack == Text(<<"Pack", " ", "de", " ", "1", "2", " ", "billets">>)
Mail == Text(<<"ann@x.org">>)

\* The well-formed orders.
Good1(file_type) ==
  Order(Article(file_type), Day(2), Text(<<"Dupont">>), Text(<<"Ann">>), Mail, Pack, NaN)
Good2(file_type) ==
  Order(Article(file_type), Day(3), Text(<<" ", "Li", " ">>), NaN,
        Text(<<" ", "li@x.org">>), Text(<<"2", " ", "x", "3">>),
        Text(<<" ", "acme", " ">>))

\* The orders of the exports: two well-formed ones, one before the other
\* dates, one of another article, and the malformed ones (no variant text,
\* a date that is no date, no date, both).
OrdersOf(file_type) ==
  {Good1(file_type), Good2(file_type),
   Order(Article(file_type), Day(1), Text(<<"Early">>), Text(<<"Eve">>), Mail,
         Text(<<"1">>), Text(<<" ">>)),
   Order(Text(<<"Mug">>), Day(2), Text(<<"Other">>), Text(<<"Al">>), Mail, Pack, NaN),
   Order(Article(file_type), Day(2), Text(<<"NoVariant">>), Text(<<"Al">>), Mail, NaN, NaN),
   Order(Article(file_type), Text(<<"n/a">>), Text(<<"BadDate">>), Text(<<"Al">>), Mail,
         Text(<<"1">>), NaN),
   Order(Article(file_type), NaN, Text(<<"NoDate">>), Text(<<"Al">>), Mail,
         Text(<<"1">>), NaN),
   Order(Article(file_type), Text(<<"n/a">>), Text(<<"BadBoth">>), Text(<<"Al">>), Mail,
         NaN, NaN)}

Batches(file_type) == UNION {[1..k -> OrdersOf(file_type)] : k \in 0..MaxBatch}

MinDates == {None} \cup {Some(i) : i \in DOMAIN DateTexts}

\* A file of `offset` rows, then the row of titles (unless titles is empty),
\* then the rows of the orders.
File(kind, offset, titles, file_type, ncols, orders) ==
  [kind |-> kind,
   rows |-> [i \in 1..offset |-> JunkRow(ncols)]
            \o (IF titles = <<>> THEN <<>> ELSE <<TitleRow(titles, ncols)>>)
            \o [k \in DOMAIN orders |-> DataRow(orders[k], file_type, ncols)]]

Kinds == {"xlsx", "csv"}

\* The titles of an export reduced to the columns the parser reads.
short_type1_names ==
  <<"Article", "Date de commande", "Nom pour facturation",
    "Prénom pour facturation", "Email pour facturation", "Déclinaison">>

\* CSV exports of both types under one row of junk: every batch, every
\* min_date.
BatchInputs ==
  UNION {{StartParse(File("csv", 1, fixed_names(file_type), file_type,
                          Len(fixed_names(file_type)), orders), min_date) :
            orders \in Batches(file_type), min_date \in MinDates} :
         file_type \in {"type1", "type2"}}

\* The layouts of a file: its titles, the export its rows come from, its width.
Layout(titles, file_type, ncols) ==
  [titles |-> titles, file_type |-> file_type, ncols |-> ncols]
Layouts ==
  {Layout(type1_names, "type1", Len(type1_names)),
   Layout(type1_names, "type1", Len(type1_names) + 1),
   Layout(type2_names, "type2", Len(type2_names)),
   Layout(type2_names, "type2", Len(type2_names) + 1),
   Layout(short_type1_names, "type1", Len(short_type1_names)),
   Layout(<<>>, "type1", Len(type1_names)),
   Layout(<<>>, "type2", Len(type2_names))}

\* Every layout with its header at every offset, with zero to two orders.
OffsetInputs ==
  {StartParse(File(kind, offset, l.titles, l.file_type, l.ncols,
                   SubSeq(<<Good1(l.file_type), Good2(l.file_type)>>, 1, n)), None) :
     kind \in Kinds, offset \in 0..MaxOffset, l \in Layouts, n \in 0..2}

\* Rows that hold some of the titles.
TitleLists ==
  {type1_names,
   <<"Article", "Date de commande", "Nom pour facturation", "Email pour facturation">>,
   <<"Article", "Date de commande", "Email pour facturation">>,
   <<"Article", "Date de commande", "Nom pour facturation", "Email pour facturation",
     "Page", "Message">>,
   <<"Article", "Date de commande", "Email pour facturation", "Nom", "Page">>,
   type2_names,
   <<"Date", "Nom", "Page">>,
   <<"Date", "Nom">>}

\* Files of one or two such rows and one order, under 0, 9 or 10 rows of junk.
TitleInputs ==
  {StartParse([kind |-> kind,
               rows |-> [i \in 1..offset |-> JunkRow(Len(type1_names))]
                        \o [k \in DOMAIN lists |-> TitleRow(lists[k], Len(type1_names))]
                        \o <<DataRow(Good1("type1"), "type1", Len(type1_names))>>],
              None) :
     kind \in Kinds, offset \in {0, ScanRows - 1, ScanRows},
     lists \in [1..1 -> TitleLists] \cup [1..2 -> TitleLists]}

\* The cell a file holds for a text: an empty cell is read as NaN.
Cell(text) == IF text = <<>> THEN NaN ELSE Text(text)

OneOrder(file_type, order) ==
  StartParse(File("csv", 0, fixed_names(file_type), file_type,
                  Len(fixed_names(file_type)), <<order>>), None)

\* One order with every variant text, every pair of names, every firm.
VariantInputs ==
  {OneOrder(file_type, [Good1(file_type) EXCEPT !.declinaison = Cell(text)]) :
     file_type \in {"type1", "type2"},
     text \in Texts({"x", " ", "0", "1", "2"}, MaxTextLen)}
NameInputs ==
  {OneOrder(file_type, [Good1(file_type) EXCEPT !.last_name = Cell(last_name),
                                                !.first_name = Cell(first_name)]) :
     file_type \in {"type1", "type2"},
     last_name \in Texts({" ", "a"}, MaxTextLen),
     first_name \in Texts({" ", "b"}, MaxTextLen)}
FirmInputs ==
  {OneOrder(file_type, [Good1(file_type) EXCEPT !.firm = Cell(text)]) :
     file_type \in {"type1", "type2"}, text \in Texts({" ", "a"}, MaxTextLen)}

ParseInit ==
  /\ parse \in BatchInputs \cup OffsetInputs \cup TitleInputs
               \cup VariantInputs \cup NameInputs \cup FirmInputs
  /\ tickets = {}
  /\ pc = [s \in Sessions |-> "idle"]
  /\ row = [s \in Sessions |-> {}]
  /\ start_id = [s \in Sessions |-> None]
  /\ sent = [s \in Sessions |-> {}]
  /\ delete_confirmation = [s \in Sessions |-> {}]
  /\ flash_error = [s \in Sessions |-> FALSE]
  /\ render = "idle"
  /\ orders_without_id = {}
  /\ orders_with_id = {}
  /\ last_call = NoCall
  /\ deleted_assigned = FALSE
  /\ used = {}
  /\ connection = [c \in Sessions |-> None]
  /\ block = [c \in Sessions |-> "outside"]
  /\ columns = AllColumns
  /\ auth = NoAuth
  /\ cls = NoPool

\* df = pd.read_excel(file_input), or pd.read_csv(file_input, header=None).
ReadFile ==
  /\ parse.pc = "start"
  /\ LET df == read(parse.file_input, 0)
     IN parse' = [parse EXCEPT !.df = df,
                               !.pc = IF df.raised THEN "raised" ELSE "read",
                               !.raised_by = IF df.raised THEN "read_csv" ELSE @]
  /\ UNCHANGED appVars

\* The loop over the first rows of df.
FindHeader ==
  /\ parse.pc = "read"
  /\ LET found == find_header(parse.df.rows, 0)
     IN parse' = [parse EXCEPT !.header_row_index = found.header_row_index,
                               !.file_type = found.file_type,
                               !.pc = IF found.header_row_index = None
                                      THEN "missed" ELSE "found"]
  /\ UNCHANGED appVars

\* A second read that skips only the rows before row header_row_index.
ReRead_FromHeader ==
  /\ parse.pc = "found"
  /\ LET df == read(parse.file_input, Val(parse.header_row_index))
     IN parse' = [parse EXCEPT !.df = df,
                               !.pc = IF df.raised THEN "raised" ELSE "headed",
                               !.raised_by = IF df.raised THEN "read_csv" ELSE @]
  /\ UNCHANGED appVars

\* header_row_index is not None: the file is read again, without the rows
\* 0 .. header_row_index.
ReRead ==
  /\ parse.pc = "found"
  /\ LET df == read(parse.file_input, Val(parse.header_row_index) + 1)
     IN parse' = [parse EXCEPT !.df = df,
                               !.pc = IF df.raised THEN "raised" ELSE "headed",
                               !.raised_by = IF df.raised THEN "read_csv" ELSE @]
  /\ UNCHANGED appVars

\* header_row_index is None: file_type = "type1", df stays as first read.
Fallback ==
  /\ parse.pc = "missed"
  /\ parse' = [parse EXCEPT !.file_type = "type1", !.pc = "headed"]
  /\ UNCHANGED appVars

\* unified_df = self._create_unified_dataframe(df, file_type)
Unify ==
  /\ parse.pc = "headed"
  /\ LET res == create_unified_dataframe(parse.df, parse.file_type)
     IN parse' = [parse EXCEPT !.unified_df = res.rows,
                               !.pc = IF res.raised THEN "raised" ELSE "unified",
                               !.raised_by = IF res.raised
                                             THEN "_create_unified_dataframe" ELSE @]
  /\ UNCHANGED appVars

\* return self.parse_dataframe(unified_df, min_date=min_date, file_type=file_type)
ParseDataframe ==
  /\ parse.pc = "unified"
  /\ LET res == parse_dataframe(parse.unified_df, parse.min_date, parse.file_type)
     IN parse' = [parse EXCEPT !.rows = res.rows,
                               !.pc = IF res.raised THEN "raised" ELSE "returned",
                               !.raised_by = IF res.raised THEN "parse_dataframe" ELSE @]
  /\ UNCHANGED appVars

ParseNext ==
  \/ ReadFile
  \/ FindHeader
  \/ ReRead
  \/ Fallback
  \/ Unify
  \/ ParseDataframe

ParseSpec == ParseInit /\ [][ParseNext]_vars

\* ------------------------------------------------------ add_order_dialog
MaxFieldLen == 2    \* characters typed into the name field of the dialog

\* What the form holds when "Add Order" is pressed: the texts as typed.
Forms ==
  [customer_name : Texts({" ", "a"}, MaxFieldLen),
   customer_email : {<<>>, <<" ">>, <<"e">>},
   firm_name : {<<"f", " ">>},
   num_tickets : {1},
   order_date : {D1},
   achat_value : {<<>>}]

\* The check of the submitted form: "Name and email are required!".
required_fields_missing(form) ==
  form.customer_name = <<>> \/ form.customer_email = <<>>

\* order_data of the form.
order_data_of(form) ==
  [id |-> None, date |-> form.order_date, name |-> strip(form.customer_name),
   email |-> strip(form.customer_email),
   firm |-> or_None(strip(form.firm_name)),
   num_tickets |-> form.num_tickets,
   achat |-> or_None(strip(form.achat_value))]

\* "Add Order" pressed on a form: the error message, or insert_single_order.
SubmitAddOrder ==
  \E form \in Forms :
    LET res == IF required_fields_missing(form) THEN [ok |-> FALSE, T |-> tickets]
               ELSE insert_single_order(tickets, order_data_of(form))
    IN /\ tickets' = res.T
       /\ last_call' = Call("add_order_dialog", [form |-> form],
                           [error |-> required_fields_missing(form), ok |-> res.ok])
       /\ UNCHANGED <<columns, parse, auth, cls, poolVars, sessVars, pageVars, deleted_assigned>>

\* The delete flow on a row of the pending table, from the button to the
\* confirmation.
DeletePending ==
  \E r \in {q \in fetch_tickets(tickets) : q.id = None} :
    /\ tickets' = delete_order_by_name_date(tickets, r.date, r.name)
    /\ last_call' = Call("delete_order_by_name_date",
                        [row_date |-> r.date, row_name |-> r.name], Void)
    /\ UNCHANGED <<columns, parse, auth, cls, poolVars, sessVars, pageVars, deleted_assigned>>

DialogNext ==
  \/ SubmitAddOrder
  \/ DeletePending

DialogSpec == Init /\ [][DialogNext]_vars

\* ------------------------------------------------------ send_ticket_email
\* os.getenv(name, default): an environment variable is unset (None) or a text.
getenv(value, default) == IF value = None THEN default ELSE Val(value)

\* The environments GmailEmailClient is constructed in.  SENDER_EMAIL is set
\* (the constructor raises without it).
Environments ==
  [IS_PROD : {None} \cup {Some(text) : text \in
                {<<>>, <<"false">>, <<"0">>, <<"true">>, <<"1">>, <<"yes">>,
                 <<" ", "True", " ">>, <<"Yes">>, <<"true", "1">>}},
   TEST_RECIPIENT : {None, Some(""), Some("test@raffle.org")},
   SENDER_EMAIL : {"sender@raffle.org"}]

\* GmailEmailClient.__init__: is_prod, test_recipient, sender_email.
GmailEmailClient(env) ==
  [sender_email |-> env.SENDER_EMAIL,
   is_prod |-> lower(strip(getenv(env.IS_PROD, <<"false">>)))
                 \in {<<"1">>, <<"true">>, <<"yes">>},
   test_recipient |-> env.TEST_RECIPIENT]

\* A client that writes to the customer whatever IS_PROD says.
compute_recipient_Customer(self, db_email) == db_email

\* self.test_recipient or self.sender_email: None and "" are false.
compute_recipient(self, db_email) ==
  IF self.is_prod THEN db_email
  ELSE IF self.test_recipient \in {None, Some("")} THEN self.sender_email
  ELSE Val(self.test_recipient)

\* range(start, stop) as a list.
range(start, stop) ==
  IF stop > start THEN [i \in 1..(stop - start) |-> start + i - 1] ELSE <<>>

\* The message of send_ticket_email: its recipient and the ticket numbers its
\* two bodies list.
send_ticket_email(self, db_email, name, num_tickets, ticket_start_id) ==
  LET to_email == compute_recipient(self, db_email)
      ticket_end_id == ticket_start_id + num_tickets - 1
  IN [From |-> self.sender_email, To |-> to_email, name |-> name,
      ticket_numbers |-> range(ticket_start_id, ticket_end_id + 1)]

\* One call of send_ticket_email by a client of some environment.
CallSendTicketEmail ==
  \E env \in Environments, r \in RowsA \cup RowsB, ticket_start_id \in 1..MaxTicketId :
    /\ last_call' =
         Call("send_ticket_email",
              [env |-> env, db_email |-> r.email, num_tickets |-> r.num_tickets,
               ticket_start_id |-> ticket_start_id],
              send_ticket_email(GmailEmailClient(env), r.email, r.name,
                                r.num_tickets, ticket_start_id))
    /\ UNCHANGED <<columns, parse, auth, cls, poolVars, tickets, sessVars, pageVars, deleted_assigned>>

MailNext == CallSendTicketEmail

MailSpec == Init /\ [][MailNext]_vars

\* ------------------------------------------------------ the Resend handler
\* The environment of the deployment: IS_PROD is enabled.
Production ==
  [IS_PROD |-> Some(<<"true">>), TEST_RECIPIENT |-> None,
   SENDER_EMAIL |-> "sender@raffle.org"]

\* A handler that allocates a new id for the order it resends.
resend_handler_Allocates(T, r) ==
  LET new_id == StartId(CHOOSE m \in get_max_id_and_span(T) : TRUE)
  IN [T |-> assign_id_for_row(T, r.date, r.name, new_id),
      message |-> send_ticket_email(GmailEmailClient(Production), r.email, r.name,
                                    r.num_tickets, new_id)]

\* "Resend" on row r of the assigned table: the table afterwards and the
\* message handed to send_ticket_email.
resend_handler(T, r) ==
  LET start_id_ == Val(r.id)
  IN [T |-> T,
      message |-> send_ticket_email(GmailEmailClient(Production), r.email, r.name,
                                    r.num_tickets, start_id_)]

\* The Resend button of a row of the assigned table; send_ticket_email
\* returns or raises.
CallResend ==
  \E r \in fetch_orders_with_assigned_ids(tickets), raised \in BOOLEAN :
    LET res == resend_handler(tickets, r)
    IN /\ tickets' = res.T
       /\ last_call' = [Call("Resend", [row |-> r], res.message) EXCEPT !.raised = raised]
       /\ UNCHANGED <<columns, parse, auth, cls, poolVars, sessVars, pageVars, deleted_assigned>>

ResendNext ==
  \/ CallInsertTickets
  \/ CallAssignId
  \/ CallResend

ResendSpec == Init /\ [][ResendNext]_vars

\* ------------------------------------------------------ the export
\* "Download Excel (one row per ticket)": the per-ticket records of the
\* orders with an id (Ticket holds the number that TICKET_%04d prints).
export_records(T) ==
  UNION {{[Date |-> order.date, Ticket |-> Val(order.id) + offset,
           Nom |-> order.name, email |-> order.email] :
            offset \in 0..(order.num_tickets - 1)} :
         order \in fetch_orders_with_assigned_ids(T)}


\* ------------------------------------------------------ the login gate
\* An email address is a text of one token; "" is the empty text.
\* AUTHORIZED_EMAILS is unset (None) or a text, given as its items between
\* the commas: "", " ", "ann@x.org", " Ann@x.org," and "ann@x.org, bob@x.org ".
AuthEnvs ==
  {None, Some(<< <<>> >>), Some(<< <<" ">> >>), Some(<< <<"ann@x.org">> >>),
   Some(<< <<" ", "Ann@x.org">>, <<>> >>),
   Some(<< <<"ann@x.org">>, <<" ", "bob@x.org", " ">> >>)}

\* The Google accounts a visitor may consent with.
Accounts == {<<"ann@x.org">>, <<"Ann@x.org">>, <<"bob@x.org">>, <<"eve@x.org">>}

\* GoogleAuth._get_authorized_emails: the list, as a set.
get_authorized_emails(env) ==
  LET items == getenv(env, << <<>> >>)
  IN IF items = << <<>> >> THEN {}
     ELSE {lower(strip(items[i])) : i \in {j \in DOMAIN items : strip(items[j]) # <<>>}}

\* A check that lets every email through.
is_user_authorized_Any(authorized_emails, user_email) == TRUE

is_user_authorized(authorized_emails, user_email) ==
  IF authorized_emails = {} THEN TRUE
  ELSE lower(user_email) \in authorized_emails

\* creds is not None and creds.valid
is_authenticated(a) ==
  a.google_auth_token # None /\ Val(a.google_auth_token).valid

is_authorized(a) ==
  LET authorized_emails == get_authorized_emails(a.AUTHORIZED_EMAILS)
      email == Val(a.google_auth_token).email
  IN IF ~is_authenticated(a) THEN FALSE
     ELSE IF authorized_emails = {} THEN TRUE
     ELSE IF email = <<>> THEN FALSE
     ELSE lower(email) \in authorized_emails

clear_credentials(a) == [a EXCEPT !.google_auth_token = None]

store_credentials_with_user_info(a, user_email) ==
  [a EXCEPT !.google_auth_token = Some([email |-> user_email, valid |-> TRUE])]

\* GoogleAuth.login; fetch_token raises or not, and the userinfo request
\* gives the email of the account behind the code or fails ("").
login(a, fetch_token_raises, userinfo_ok) ==
  IF is_authenticated(a) THEN a
  ELSE IF a.code = None THEN [a EXCEPT !.message = "login button"]
  ELSE IF fetch_token_raises
  THEN [clear_credentials(a) EXCEPT !.message = "Login failed"]
  ELSE LET user_email == IF userinfo_ok THEN Val(a.code) ELSE <<>>
       IN IF ~is_user_authorized(get_authorized_emails(a.AUTHORIZED_EMAILS), user_email)
          THEN [clear_credentials(a) EXCEPT !.message = "Access denied"]
          ELSE [store_credentials_with_user_info(a, user_email) EXCEPT
                  !.code = None, !.message = "Successfully logged in"]

logout(a) == [clear_credentials(a) EXCEPT !.message = "Successfully logged out"]

\* GoogleAuth.require_auth: the session afterwards and the value returned.
require_auth(a, fetch_token_raises, userinfo_ok) ==
  IF ~is_authenticated(a)
  THEN [auth |-> login(a, fetch_token_raises, userinfo_ok), ret |-> FALSE]
  ELSE IF ~is_authorized(a) THEN [auth |-> logout(a), ret |-> FALSE]
  ELSE [auth |-> a, ret |-> TRUE]

AuthInit ==
  /\ auth \in {[NoAuth EXCEPT !.AUTHORIZED_EMAILS = env] : env \in AuthEnvs}
  /\ tickets = {}
  /\ pc = [s \in Sessions |-> "idle"]
  /\ row = [s \in Sessions |-> {}]
  /\ start_id = [s \in Sessions |-> None]
  /\ sent = [s \in Sessions |-> {}]
  /\ delete_confirmation = [s \in Sessions |-> {}]
  /\ flash_error = [s \in Sessions |-> FALSE]
  /\ render = "idle"
  /\ orders_without_id = {}
  /\ orders_with_id = {}
  /\ last_call = NoCall
  /\ deleted_assigned = FALSE
  /\ used = {}
  /\ connection = [c \in Sessions |-> None]
  /\ block = [c \in Sessions |-> "outside"]
  /\ columns = AllColumns
  /\ parse = NoParse
  /\ cls = NoPool

authFrame == <<storeVars, parse, cls>>

\* The visitor comes back from Google's consent page: ?code=... of an account.
Consent ==
  /\ \E account \in Accounts :
       auth' = [auth EXCEPT !.code = Some(account), !.message = "none",
                            !.dashboard = FALSE]
  /\ UNCHANGED authFrame

\* One script run of main: the dashboard is rendered when require_auth
\* returns True.
ScriptRun ==
  /\ \E fetch_token_raises \in BOOLEAN, userinfo_ok \in BOOLEAN :
       LET res == require_auth([auth EXCEPT !.message = "none"],
                               fetch_token_raises, userinfo_ok)
       IN auth' = [res.auth EXCEPT !.dashboard = res.ret]
  /\ UNCHANGED authFrame

\* The access token of the stored credentials expires.
Expire ==
  /\ is_authenticated(auth)
  /\ auth' = [auth EXCEPT !.google_auth_token =
                            Some([Val(auth.google_auth_token) EXCEPT !.valid = FALSE])]
  /\ UNCHANGED authFrame

\* The Logout button of the dashboard.
LogoutButton ==
  /\ auth.dashboard
  /\ auth' = [logout(auth) EXCEPT !.dashboard = FALSE]
  /\ UNCHANGED authFrame

AuthNext ==
  \/ Consent
  \/ ScriptRun
  \/ Expire
  \/ LogoutButton

AuthSpec == AuthInit /\ [][AuthNext]_vars

\* ------------------------------------------------------ the class's pool
MaxPools == 2       \* SimpleConnectionPool objects constructed in one process

clsFrame == <<storeVars, parse, auth>>

\* Thread t moves to position p of the classmethod it is in ("done": the call
\* has returned, "raised": it ended with an exception).
Goto(t, p) == [cls EXCEPT !.th[t].pc = p]

\* A thread calls PostgresClient._get_pool().
Enter_get_pool(t) ==
  /\ cls.th[t].pc \in {"idle", "done", "raised"}
  /\ cls' = [cls EXCEPT !.th[t] = [pc |-> "check", ret |-> None, reset |-> FALSE]]
  /\ UNCHANGED clsFrame

\* if cls._pool is None:
Check(t) ==
  /\ cls.th[t].pc = "check"
  /\ cls' = Goto(t, IF cls._pool = None THEN "lock" ELSE "return")
  /\ UNCHANGED clsFrame

\* with cls._lock: the lock is acquired.
Acquire(t) ==
  /\ cls.th[t].pc = "lock"
  /\ cls._lock = None
  /\ cls' = [Goto(t, "recheck") EXCEPT !._lock = Some(t)]
  /\ UNCHANGED clsFrame

\* A _get_pool without the second test inside the lock.
Recheck_Always(t) ==
  /\ cls.th[t].pc = "recheck"
  /\ cls' = Goto(t, "create")
  /\ UNCHANGED clsFrame

\* if cls._pool is None: inside the lock.
Recheck(t) ==
  /\ cls.th[t].pc = "recheck"
  /\ cls' = Goto(t, IF cls._pool = None THEN "create" ELSE "unlock")
  /\ UNCHANGED clsFrame

\* cls._pool = SimpleConnectionPool(...)
Create(t) ==
  /\ cls.th[t].pc = "create"
  /\ cls.created < MaxPools
  /\ cls' = [Goto(t, "unlock") EXCEPT !._pool = Some(cls.created + 1),
                                      !.created = cls.created + 1]
  /\ UNCHANGED clsFrame

\* SimpleConnectionPool(...) raises (the database is not reachable): the
\* with statement releases the lock and the call ends with the exception.
CreateRaises(t) ==
  /\ cls.th[t].pc = "create"
  /\ cls' = [Goto(t, "raised") EXCEPT !._lock = None]
  /\ UNCHANGED clsFrame

\* The end of the with block: the lock is released.
Release(t) ==
  /\ cls.th[t].pc = "unlock"
  /\ cls' = [Goto(t, "return") EXCEPT !._lock = None]
  /\ UNCHANGED clsFrame

\* return cls._pool
Return(t) ==
  /\ cls.th[t].pc = "return"
  /\ cls' = [cls EXCEPT !.th[t].pc = "done", !.th[t].ret = cls._pool]
  /\ UNCHANGED clsFrame

\* A thread calls PostgresClient.close_pool().
Enter_close_pool(t) ==
  /\ cls.th[t].pc \in {"idle", "done", "raised"}
  /\ cls' = [cls EXCEPT !.th[t] = [pc |-> "closing", ret |-> None, reset |-> FALSE]]
  /\ UNCHANGED clsFrame

\* if cls._pool is not None:
CloseCheck(t) ==
  /\ cls.th[t].pc = "closing"
  /\ cls' = Goto(t, IF cls._pool # None THEN "closeall" ELSE "idle")
  /\ UNCHANGED clsFrame

\* cls._pool.closeall(): the attribute is read again (on None the call raises).
CloseAll(t) ==
  /\ cls.th[t].pc = "closeall"
  /\ cls' = Goto(t, IF cls._pool # None THEN "reset" ELSE "raised")
  /\ UNCHANGED clsFrame

\* cls._pool = None; every call under way has seen a reset of the pool.
Reset(t) ==
  /\ cls.th[t].pc = "reset"
  /\ cls' = [cls EXCEPT
               !._pool = None,
               !.th = [u \in Threads |->
                         IF u = t THEN [cls.th[u] EXCEPT !.pc = "idle"]
                         ELSE IF cls.th[u].pc = "idle" THEN cls.th[u]
                         ELSE [cls.th[u] EXCEPT !.reset = TRUE]]]
  /\ UNCHANGED clsFrame

ClassNext ==
  \E t \in Threads :
    \/ Enter_get_pool(t)
    \/ Check(t)
    \/ Acquire(t)
    \/ Recheck(t)
    \/ Create(t)
    \/ CreateRaises(t)
    \/ Release(t)
    \/ Return(t)
    \/ Enter_close_pool(t)
    \/ CloseCheck(t)
    \/ CloseAll(t)
    \/ Reset(t)

ClassSpec == Init /\ [][ClassNext]_vars

\* ================================================================ claims
\* The ids of the assigned rows are s, s+c1, s+c1+c2, ... in some order of
\* allocation, starting at next.
RECURSIVE Chain(_, _)
Chain(A, next) ==
  \/ A = {}
  \/ \E r \in A : Val(r.id) = next /\ Chain(A \ {r}, next + r.num_tickets)

\* The ticket numbers of an assigned row.
Range(r) == Val(r.id) .. (Val(r.id) + r.num_tickets - 1)

\* C1: with one script run at a time, and as long as only pending orders were
\* deleted, the assigned ids are exactly s, s+c1, s+c1+c2, ... for the ticket
\* counts c1..cN of the orders sent so far: no gap, no overlap.
C1_SequentialContiguity ==
  ~deleted_assigned => Chain(Assigned(tickets), STARTING_TICKET_ID)

\* C2: under every interleaving of the sessions, no two orders hold the same
\* assigned id and the ranges of the assigned orders are pairwise disjoint.
C2_RangesDisjoint ==
  \A r \in Assigned(tickets), q \in Assigned(tickets) :
    r # q => (r.id # q.id /\ Range(r) \cap Range(q) = {})

\* C3: an import of the same file right after an import of it leaves the
\* stored rows as they are and returns 0.
C3_IdempotentImport ==
  [][(last_call'.fn = "insert_tickets" /\ last_call'.again)
       => (tickets' = tickets /\ last_call'.ret.inserted_count = 0)]_vars

C3_Witness ==
  /\ last_call.fn = "insert_tickets"
  /\ last_call.again
  /\ \E i \in DOMAIN last_call.arg.ticket_rows :
       \E r \in tickets : SameKey(r, last_call.arg.ticket_rows[i])

InsertCall(c) == c.fn \in {"insert_tickets", "insert_single_order"}

\* C4: after any sequence of calls of the store's interface at most one row
\* exists per (name, date), and an insert keeps every row already stored as
\* it is (a second order with a stored key is not stored).
C4_NaturalKeyUnique ==
  [][/\ \A r \in tickets', q \in tickets' : SameKey(r, q) => r = q
     /\ InsertCall(last_call') => \A r \in tickets : r \in tickets']_vars

C4_Witness ==
  /\ last_call.fn = "insert_single_order"
  /\ ~last_call.ret.ok
  /\ \E r \in tickets :
       /\ SameKey(r, last_call.arg.order_data)
       /\ r.num_tickets # last_call.arg.order_data.num_tickets
       /\ \A q \in tickets : SameKey(q, r) => q = r

\* C5: an import of a file that holds an order whose stored row has a non-null
\* id keeps that row, id included, and stores no second row with its key.
C5_ImportKeepsAssigned ==
  [][last_call'.fn = "insert_tickets"
       => \A r \in Assigned(tickets) :
            /\ r \in tickets'
            /\ \A q \in tickets' : SameKey(q, r) => q = r]_vars

C5_Witness ==
  /\ last_call.fn = "insert_tickets"
  /\ \E i \in DOMAIN last_call.arg.ticket_rows :
       \E r \in Assigned(tickets) : SameKey(r, last_call.arg.ticket_rows[i])

\* C6: once the id of a stored order is non-null no step changes it.
C6_WriteOnce ==
  [][\A r \in Assigned(tickets) : \A q \in tickets' : SameKey(q, r) => q.id = r.id]_vars

\* C7: a send whose email raises changes no row: the order's id stays null,
\* get_max_id_and_span returns what it returned before, and a retry computes
\* the start id the failed attempt would have computed now.
C7_FailureLeavesNoTrace ==
  [][\A s \in Sessions :
       (pc[s] = "allocated" /\ flash_error'[s])
         => /\ tickets' = tickets
            /\ \A r \in row[s] : \A q \in tickets :
                 SameKey(q, r) => \E n \in tickets' : SameKey(n, q) /\ n.id = q.id
            /\ get_max_id_and_span(tickets') = get_max_id_and_span(tickets)
            /\ {StartId(m) : m \in get_max_id_and_span(tickets')}
                 = {StartId(m) : m \in get_max_id_and_span(tickets)}]_vars

C7_Witness ==
  \E s \in Sessions :
    /\ flash_error[s]
    /\ pc[s] = "idle"
    /\ Assigned(tickets) = {}
    /\ ~deleted_assigned
    /\ tickets # {}

\* C8: every write of a non-null id v to an order is made by a run that has
\* delivered, before the write, the email of that order with ticket_start_id = v.
C8_NotifyBeforeAssign ==
  [][\A q \in Assigned(tickets') :
       (\A r \in tickets : SameKey(r, q) => r.id # q.id)
         => \E s \in Sessions : \E m \in sent[s] :
              /\ pc[s] = "mailed"
              /\ m.name = q.name
              /\ m.ticket_start_id = Val(q.id)]_vars

C8_Witness == Assigned(tickets) # {}

\* C9: a row is removed only while its id is null.
C9_DeleteOnlyUnassigned ==
  [][\A r \in tickets : (\A q \in tickets' : ~SameKey(q, r)) => r.id = None]_vars

\* C10: the two lists of one page load are disjoint and together hold exactly
\* the stored orders.
C10_Partition ==
  render = "rendered"
    => /\ {Key(r) : r \in orders_without_id} \cap {Key(r) : r \in orders_with_id} = {}
       /\ {Key(r) : r \in orders_without_id} \cup {Key(r) : r \in orders_with_id}
            = {Key(r) : r \in tickets}

\* C11: every stored order has num_tickets >= 1, whether the parser made it
\* from a variant text that holds a digit run or the dialog made it.
C11_TicketCountPositive == \A r \in tickets : r.num_tickets >= 1

\* The assigned rows that hold the maximum id.
MaxIdRows(T) == {m \in Assigned(T) : \A q \in Assigned(T) : Val(q.id) <= Val(m.id)}

\* C12: the start id a send computes is STARTING_TICKET_ID when no stored row
\* has an id, and otherwise m + c for a row that holds the maximum id m and
\* has ticket count c; get_max_id_and_span returns (None, None) exactly when
\* no row has an id.
C12_AllocatorPolicy ==
  [][/\ \A s \in Sessions :
          (pc[s] = "rendered" /\ pc'[s] = "allocated")
            => IF Assigned(tickets) = {}
               THEN start_id'[s] = Some(STARTING_TICKET_ID)
               ELSE \E m \in MaxIdRows(tickets) :
                      start_id'[s] = Some(Val(m.id) + m.num_tickets)
     /\ (<<None, None>> \in get_max_id_and_span(tickets')) <=> (Assigned(tickets') = {})
     /\ Assigned(tickets') = {} => get_max_id_and_span(tickets') = {<<None, None>>}]_vars

\* A send has computed m + c where c is neither 1 nor the largest count.
C12_Witness ==
  \E s \in Sessions : \E m \in MaxIdRows(tickets) :
    /\ pc[s] = "allocated"
    /\ start_id[s] = Some(Val(m.id) + m.num_tickets)
    /\ start_id[s] # Some(Val(m.id) + 1)
    /\ \E c \in Assigned(tickets) :
         /\ c.num_tickets > m.num_tickets
         /\ \A q \in Assigned(tickets) : q.num_tickets <= c.num_tickets

\* C13: insert_tickets skips every row of the batch whose (name, date) is
\* stored or occurs earlier in the batch, goes on with the rows after it,
\* changes no stored row, and returns the number of rows it has added.
C13_BatchSkipsDuplicates ==
  [][last_call'.fn = "insert_tickets"
       => LET ticket_rows == last_call'.arg.ticket_rows
          IN /\ \A r \in tickets : r \in tickets'
             /\ \A i \in DOMAIN ticket_rows :
                  \E q \in tickets' : SameKey(q, ticket_rows[i])
             /\ \A i \in DOMAIN ticket_rows :
                  (/\ ~Violates(tickets, ticket_rows[i])
                   /\ \A j \in 1..(i - 1) : ~SameKey(ticket_rows[j], ticket_rows[i]))
                    => ticket_rows[i] \in tickets'
             /\ \A r \in tickets' \ tickets :
                  \E i \in DOMAIN ticket_rows : ticket_rows[i] = r
             /\ last_call'.ret.inserted_count = Cardinality(tickets' \ tickets)]_vars

\* A batch whose first row was skipped and whose second row was added.
C13_Witness ==
  /\ last_call.fn = "insert_tickets"
  /\ Len(last_call.arg.ticket_rows) = 2
  /\ last_call.ret.inserted_count = 1
  /\ last_call.arg.ticket_rows[1] \notin tickets
  /\ last_call.arg.ticket_rows[2] \in tickets
  /\ ~SameKey(last_call.arg.ticket_rows[1], last_call.arg.ticket_rows[2])

\* C14: insert_single_order never raises; it returns True exactly when it has
\* added the row, and when it returns False (duplicate key or any other store
\* error) the stored rows are what they were.
C14_InsertOneReturnsBool ==
  [][last_call'.fn = "insert_single_order"
       => /\ ~last_call'.raised
          /\ last_call'.ret.ok \in BOOLEAN
          /\ last_call'.ret.ok
               <=> (/\ last_call'.arg.order_data \notin tickets
                    /\ tickets' = tickets \cup {last_call'.arg.order_data})
          /\ ~last_call'.ret.ok => tickets' = tickets]_vars

\* insert_single_order has returned False for an order whose key is not
\* stored: the statement failed with a store error.
C14_Witness ==
  /\ last_call.fn = "insert_single_order"
  /\ ~last_call.ret.ok
  /\ ~Violates(tickets, last_call.arg.order_data)
  /\ tickets # {}

UpdateCall(c) == c.fn \in {"update_achat_for_row", "assign_id_for_row"}

\* The stored rows with the (name, date) a call names.
Matching(T, arg) == {r \in T : r.name = arg.row_name /\ r.date = arg.row_date}

\* C15: update_achat_for_row and assign_id_for_row with a (name, date) that no
\* stored row has do not raise and leave the stored rows exactly as they are.
C15_UpdateOfMissingRowIsNoOp ==
  [][(UpdateCall(last_call') /\ Matching(tickets, last_call'.arg) = {})
       => (tickets' = tickets /\ ~last_call'.raised)]_vars

\* Such a call was made on a table that holds a row with another id.
C15_Witness ==
  /\ last_call.fn = "assign_id_for_row"
  /\ Matching(tickets, last_call.arg) = {}
  /\ \E r \in tickets : r.id # None /\ r.id # Some(last_call.arg.new_id)

\* C16: a stored order whose id is null stays stored and in the pending list,
\* with the fields it has (the note apart), until a send on it assigns its id
\* or a confirmed delete of its (name, date) removes it; no other step of any
\* session removes it or takes it off the pending list.
C16_PendingNeverDropped ==
  [][\A r \in tickets :
       r.id = None =>
         \/ \E q \in {x \in fetch_tickets(tickets') : x.id = None} :
              q = [r EXCEPT !.achat = q.achat]
         \/ \E s \in Sessions :
              /\ pc[s] = "mailed" /\ pc'[s] = "idle"
              /\ \E x \in row[s] : SameKey(x, r)
              /\ \E q \in tickets' : SameKey(q, r) /\ q.id = start_id[s]
         \/ \E s \in Sessions :
              /\ pc[s] = "idle"
              /\ \E order_info \in delete_confirmation[s] :
                   order_info.name = r.name /\ order_info.date = r.date
              /\ delete_confirmation'[s] = {}
              /\ \A q \in tickets' : ~SameKey(q, r)]_vars

\* A pending order with an edited note is stored next to an order that was
\* sent, while a session holds a row that has changed since it was fetched.
C16_Witness ==
  /\ \E r \in tickets : r.id = None /\ r.achat # NULL
  /\ \E q \in tickets : q.id # None
  /\ \E s \in Sessions : pc[s] = "rendered" /\ \A x \in row[s] : x \notin tickets

\* C17: whenever no with-block is active no connection is checked out of the
\* pool: every way out of a with-block has returned its connection.
C17_NoConnectionLeak ==
  (\A c \in Sessions : block[c] = "outside") => used = {}

\* C18: an insert_tickets that raises on a store error leaves the stored rows
\* as they were before the call.
C18_FailedImportAppliesNothing ==
  [][(last_call'.fn = "insert_tickets" /\ last_call'.raised)
       => tickets' = tickets]_vars

\* What one import of ticket_rows that succeeds makes of the table B: B and,
\* for each key B does not hold, the first row of the batch with that key.
ImportedOnce(B, ticket_rows) ==
  B \cup {ticket_rows[i] :
            i \in {j \in DOMAIN ticket_rows :
                     /\ \A q \in B : ~SameKey(q, ticket_rows[j])
                     /\ \A k \in 1..(j - 1) : ~SameKey(ticket_rows[k], ticket_rows[j])}}

\* C19: when an import has raised part-way and the same batch is imported
\* again and completes, the stored rows are those one successful import
\* would have left: no order twice, no id changed.
C19_ImportRetry ==
  (last_call.fn = "insert_tickets" /\ last_call.retry /\ ~last_call.raised)
    => /\ tickets = ImportedOnce(last_call.before, last_call.arg.ticket_rows)
       /\ tickets = insert_tickets(last_call.before, last_call.arg.ticket_rows).T
       /\ \A r \in tickets, q \in tickets : SameKey(r, q) => r = q
       /\ \A r \in Assigned(last_call.before) : r \in tickets

\* The retry completed after the failed attempt had stored a row, on a table
\* that held an order with an id.
C19_Witness ==
  /\ last_call.fn = "insert_tickets" /\ last_call.retry /\ ~last_call.raised
  /\ last_call.ret.inserted_count < Cardinality(tickets \ last_call.before)
  /\ Assigned(last_call.before) # {}

\* C20: create_tickets_table never raises, whether the table is missing, lacks
\* the achat column or is up to date; it leaves every stored row as it is (a
\* row of a table without achat gets a NULL achat and keeps its other
\* columns); after it the table has all columns, achat included, and a
\* second call changes nothing.
C20_CreateTableIdempotent ==
  [][last_call'.fn = "create_tickets_table"
       => /\ ~last_call'.raised
          /\ columns' = AllColumns
          /\ {[c \in columns |-> r[c]] : r \in tickets'} = tickets
          /\ Cardinality(tickets') = Cardinality(tickets)
          /\ \A r \in tickets' : "achat" \notin columns => r.achat = NULL
          /\ columns = AllColumns => tickets' = tickets
          /\ last_call'.again => (tickets' = tickets /\ columns' = columns)]_vars

\* create_tickets_table was called on a table without the achat column that
\* held orders, one of them with an id.
C20_Witness ==
  /\ last_call.fn = "create_tickets_table"
  /\ last_call.before # {}
  /\ \A r \in last_call.before : "achat" \notin DOMAIN r
  /\ \E r \in tickets : r.id # None
  /\ columns = AllColumns

\* ------------------------------------------------------ the parser's claims
\* The cell holds a date / the date it holds.
HoldsDate(cell) ==
  cell.kind = "text" /\ \E i \in DOMAIN DateTexts : cell.text = <<DateTexts[i]>>
DateOf(cell) == CHOOSE i \in DOMAIN DateTexts : cell.text = <<DateTexts[i]>>

\* The cell holds a text with a decimal digit in it.
HasDigit(cell) == cell.kind = "text" /\ \E i \in DOMAIN cell.text : IsDigit(cell.text[i])

\* Row r of the batch is well formed and passes the article, digit and
\* min_date filters of the call that is followed.
WellFormed(r) == HoldsDate(r.date) /\ HasDigit(r.declinaison)
PassesFilters(r) ==
  /\ WellFormed(r)
  /\ r.article = Article(parse.file_type)
  /\ parse.min_date # None => DateOf(r.date) >= Val(parse.min_date)

\* parse_dataframe was called and has returned or raised.
ParseDataframeEnded ==
  parse.pc = "returned" \/ (parse.pc = "raised" /\ parse.raised_by = "parse_dataframe")

\* C21: parse_dataframe never raises because of a malformed row: called on
\* any batch of rows, it returns, and it returns one order for each
\* well-formed row that passes the filters, in the order of the batch; the
\* rows with a missing or unparseable date or without variant text give none.
C21_MalformedRowSkipped ==
  (ParseDataframeEnded /\ parse.unified_df # <<>>)
    => /\ parse.pc = "returned"
       /\ LET kept == SelectSeq(parse.unified_df, PassesFilters)
          IN /\ Len(parse.rows) = Len(kept)
             /\ \A i \in DOMAIN kept :
                  parse.rows[i].date = Formatted[DateOf(kept[i].date)]

\* The integer that a text of decimal digits denotes.
RECURSIVE Decimal(_)
Decimal(digits) ==
  IF digits = <<>> THEN 0
  ELSE 10 * Decimal(SubSeq(digits, 1, Len(digits) - 1))
         + DigitVal(digits[Len(digits)])

\* The first maximal run of decimal digits of a text that holds a digit.
FirstRun(text) ==
  LET i == CHOOSE i \in DOMAIN text :
             IsDigit(text[i]) /\ \A k \in 1..(i - 1) : ~IsDigit(text[k])
      j == CHOOSE j \in i..Len(text) :
             /\ \A k \in i..j : IsDigit(text[k])
             /\ j = Len(text) \/ ~IsDigit(text[j + 1])
  IN SubSeq(text, i, j)

\* Row r of the batch passes the article filter and the min_date filter.
ReachesLoop(r) ==
  /\ r.article = Article(parse.file_type)
  /\ parse.min_date # None => (HoldsDate(r.date) /\ DateOf(r.date) >= Val(parse.min_date))

\* C22: when parse_file returns, the orders it returns are, in order, those
\* of the rows that pass the article and min_date filters and whose variant
\* text holds a digit, each with the integer value of the first maximal run
\* of decimal digits of its variant text as num_tickets; a row whose variant
\* text holds no digit gives no order.
C22_FirstDigitRun ==
  parse.pc = "returned"
    => LET counted == SelectSeq(SelectSeq(parse.unified_df, ReachesLoop),
                                LAMBDA r : HasDigit(r.declinaison))
       IN /\ Len(parse.rows) = Len(counted)
          /\ \A i \in DOMAIN counted :
               parse.rows[i].num_tickets = Decimal(FirstRun(counted[i].declinaison.text))

\* "Pack de 12 billets" gave an order of 12 tickets, and the row after it,
\* of the same article and without variant text, gave none.
C22_Witness ==
  /\ parse.pc = "returned"
  /\ Len(parse.unified_df) = 2
  /\ parse.unified_df[1].declinaison = Pack
  /\ parse.unified_df[2].article = Article(parse.file_type)
  /\ ~HasDigit(parse.unified_df[2].declinaison)
  /\ Len(parse.rows) = 1
  /\ parse.rows[1].num_tickets = 12

\* C23: the min_date filter is inclusive: parse_dataframe gives an order for
\* a row of the batch iff the row has the article, its variant text holds a
\* digit and, when a min_date is given, its date is min_date or later; with
\* no min_date no row is dropped for its date.
C23_MinDateInclusive ==
  (ParseDataframeEnded /\ parse.unified_df # <<>>)
    => LET due == SelectSeq(parse.unified_df,
                            LAMBDA r : ReachesLoop(r) /\ HasDigit(r.declinaison))
       IN /\ Len(parse.rows) = Len(due)
          /\ \A i \in DOMAIN due :
               HoldsDate(due[i].date)
                 => parse.rows[i].date = Formatted[DateOf(due[i].date)]

\* The text holds at least n of the column names cols.
HoldsNamesOf(text, cols, n) ==
  \E S \in SUBSET DOMAIN cols :
    Cardinality(S) = n /\ \A i \in S : Contains(text, cols[i])

\* C24: the search for the header looks at the first 10 rows of the
\* dataframe in order and stops at the first row whose lower-cased text holds
\* at least 4 of the 5 type1 column names (type1) or else at least 3 of the 6
\* type2 column names (type2); a row that holds both is type1; no row after
\* that row counts; when no such row is among the first 10 no header is found.
C24_SchemaDetection ==
  parse.pc \in {"found", "missed"}
    => LET df_rows == parse.df.rows
           is1(i) == HoldsNamesOf(row_text(df_rows[i + 1]), type1_columns, 4)
           is2(i) == HoldsNamesOf(row_text(df_rows[i + 1]), type2_columns, 3)
           headers == {i \in 0..9 : i < Len(df_rows) /\ (is1(i) \/ is2(i))}
       IN IF headers = {} THEN parse.header_row_index = None
          ELSE LET first == CHOOSE i \in headers : \A j \in headers : i <= j
               IN /\ parse.header_row_index = Some(first)
                  /\ parse.file_type = IF is1(first) THEN "type1" ELSE "type2"

\* A row of three type2 titles was taken as the header, type2, although a
\* later row holds the type1 titles.
C24_Witness ==
  /\ parse.pc = "found"
  /\ parse.file_type = "type2"
  /\ \E i \in DOMAIN parse.df.rows :
       /\ i > Val(parse.header_row_index) + 1
       /\ HoldsNamesOf(row_text(parse.df.rows[i]), type1_columns, 5)

C26_MissFailsSoft ==
  (parse.header_row_index = None /\ parse.pc \in {"headed", "unified", "returned", "raised"}
     /\ parse.raised_by # "read_csv")
    => /\ parse.file_type = "type1"
       /\ parse.df = read(parse.file_input, 0)
       /\ parse.pc # "raised"

\* _create_unified_dataframe was called and has returned or raised.
UnifyEnded ==
  \/ parse.pc \in {"unified", "returned"}
  \/ parse.pc = "raised"
       /\ parse.raised_by \in {"_create_unified_dataframe", "parse_dataframe"}

\* C27: _create_unified_dataframe does not raise, whatever the export and
\* the rows; it gives one row for each row of the dataframe, with exactly
\* the fields article, date, last_name, first_name, email, declinaison and
\* firm, the first_name of a type2 row being null.
C27_NormalizationTotal ==
  UnifyEnded
    => /\ parse.raised_by # "_create_unified_dataframe"
       /\ Len(parse.unified_df) = Len(parse.df.rows)
       /\ \A i \in DOMAIN parse.unified_df :
            /\ DOMAIN parse.unified_df[i]
                 = {"article", "date", "last_name", "first_name", "email",
                    "declinaison", "firm"}
            /\ parse.file_type = "type2" => parse.unified_df[i].first_name = PyNone

\* The rows of the batch that gave the orders of a call that returned.
SourceRows ==
  SelectSeq(parse.unified_df, LAMBDA r : ReachesLoop(r) /\ HasDigit(r.declinaison))

\* The text of a cell, the empty text for a cell without value.
TextOf(cell) == IF cell.kind = "text" THEN cell.text ELSE <<>>

\* C28: the firm of every order that parse_file returns is null when the
\* firm cell of its row has no value or is empty after trimming, and the
\* trimmed text of the cell otherwise.
C28_FirmTrimmedOrNull ==
  parse.pc = "returned"
    => /\ Len(parse.rows) = Len(SourceRows)
       /\ \A i \in DOMAIN SourceRows :
            parse.rows[i].firm =
              IF strip(TextOf(SourceRows[i].firm)) = <<>> THEN None
              ELSE Some(strip(TextOf(SourceRows[i].firm)))

\* C29: the name of every order that parse_file returns is
\* trim(trim(last_name) + " " + trim(first_name)) of its row, a cell without
\* value counting as the empty text: with no first name it is the trimmed
\* last name.
C29_CustomerName ==
  parse.pc = "returned"
    => /\ Len(parse.rows) = Len(SourceRows)
       /\ \A i \in DOMAIN SourceRows :
            parse.rows[i].name =
              strip(strip(TextOf(SourceRows[i].last_name)) \o <<" ">>
                      \o strip(TextOf(SourceRows[i].first_name)))

\* ------------------------------------------------ orders are created pending
\* C30: an order enters the table, from an import or from the dialog, with a
\* null id; and a row's id becomes non-null (or changes) only in the step in
\* which the Send handler of a session that has delivered its email calls
\* assign_id_for_row for that row with the start_id it computed.
C30_CreatedPending ==
  [][/\ \A q \in tickets' : (\A r \in tickets : ~SameKey(r, q)) => q.id = None
     /\ \A q \in Assigned(tickets') :
          (\A r \in tickets : SameKey(r, q) => r.id # q.id)
            => \E s \in Sessions : \E r \in row[s] :
                 /\ pc[s] = "mailed"
                 /\ SameKey(r, q)
                 /\ q.id = start_id[s]
                 /\ tickets' = assign_id_for_row(tickets, r.date, r.name,
                                                 Val(start_id[s]))]_vars

\* The table holds an order with an id next to a pending one while a third
\* step of some session is under way.
C30_Witness ==
  /\ \E r \in tickets : r.id # None
  /\ \E q \in tickets : q.id = None
  /\ \E s \in Sessions : pc[s] = "mailed"

\* ------------------------------------------------ the manual-add dialog
\* C31: every order stored through the dialog has a non-empty name and a
\* non-empty email, and a form that is refused leaves the table unchanged.
C31_RequiredFields ==
  /\ \A r \in tickets : r.name # <<>> /\ r.email # <<>>
  /\ last_call.fn = "add_order_dialog" /\ last_call.ret.error
       => last_call.ret.ok = FALSE

\* ------------------------------------------------ the recipient of an email
\* The environments in which IS_PROD is enabled: the variable is set to 1,
\* true or yes, in any case and with blanks around it.
Enabled_IS_PROD ==
  {Some(<<"true">>), Some(<<"1">>), Some(<<"yes">>), Some(<<" ", "True", " ">>),
   Some(<<"Yes">>)}

\* C32: a message of a client whose IS_PROD is not enabled goes to the test
\* recipient, or to the sender when no test recipient is configured, and so
\* never to the customer; with IS_PROD enabled it goes to the customer.
C32_TestModeRedirection ==
  last_call.fn = "send_ticket_email" =>
    LET env == last_call.arg.env
        fixed == IF env.TEST_RECIPIENT = Some("test@raffle.org")
                 THEN "test@raffle.org" ELSE env.SENDER_EMAIL
    IN IF env.IS_PROD \in Enabled_IS_PROD
       THEN last_call.ret.To = last_call.arg.db_email
       ELSE last_call.ret.To = fixed /\ last_call.ret.To # last_call.arg.db_email

\* A message of a client in test mode, without a usable test recipient.
C32_Witness ==
  /\ last_call.fn = "send_ticket_email"
  /\ last_call.arg.env.IS_PROD = Some(<<"false">>)
  /\ last_call.arg.env.TEST_RECIPIENT = Some("")
  /\ last_call.ret.To = "sender@raffle.org"

\* ------------------------------------------------ communicated ids are recorded
\* C33: when the Send handler of a session whose email was delivered with
\* start id v ends, the order it targeted is stored with id v, whatever the
\* other sessions did in between.
C33_CommunicatedIdRecorded ==
  [][\A s \in Sessions :
       pc[s] = "mailed" /\ pc'[s] = "idle"
         => \A m \in sent[s] :
              \E q \in tickets' :
                /\ q.name = m.name
                /\ q.email = m.db_email
                /\ q.id = Some(m.ticket_start_id)]_vars

\* ------------------------------------------------ the allocator's frame
\* C34: the result of get_max_id_and_span, and with it the next start id,
\* changes only in a step that assigns an id (the end of a Send handler) or
\* that deletes a row holding an id; an import, a manual add, a note edit, the
\* deletion of a pending order and a Resend leave it unchanged.
C34_AllocatorFrame ==
  [][get_max_id_and_span(tickets') # get_max_id_and_span(tickets)
       => \E s \in Sessions :
            \/ pc[s] = "mailed" /\ pc'[s] = "idle"
            \/ \E order_info \in delete_confirmation[s] :
                 /\ delete_confirmation'[s] = {}
                 /\ \E r \in Assigned(tickets) :
                      r.name = order_info.name /\ r.date = order_info.date]_vars

\* An assigned order next to an order whose note was edited, with no Send
\* handler and no delete dialog under way.
C34_Witness ==
  /\ \E r \in tickets : r.id # None
  /\ \E q \in tickets : q.id = None /\ q.achat = "cash"
  /\ \A s \in Sessions : pc[s] = "idle" /\ delete_confirmation[s] = {}

\* ------------------------------------------------ point updates
\* C35: a step that changes a stored order changes one column, id or achat,
\* of that one row: its name, date, email, firm and ticket count stay, and
\* every other row of the table stays as it is.
C35_PointUpdates ==
  [][\A r \in tickets : \A q \in tickets' :
       SameKey(r, q) =>
         /\ q.email = r.email /\ q.num_tickets = r.num_tickets /\ q.firm = r.firm
         /\ q.id = r.id \/ q.achat = r.achat
         /\ q # r => tickets \ {r} = tickets' \ {q}]_vars

\* Two stored orders, one of them with an id and an edited note.
C35_Witness ==
  /\ \E r \in tickets : r.id # None /\ r.achat = "cash"
  /\ \E r \in tickets, q \in tickets : ~SameKey(r, q)

\* ------------------------------------------------ Resend allocates nothing
\* C36: a Resend on an assigned order hands send_ticket_email the order's
\* own id and ticket count, and whether the email goes out or raises the
\* table, and with it the result of get_max_id_and_span, stays as it is.
C36_ResendNoAllocation ==
  [][last_call'.fn = "Resend" =>
       LET r == last_call'.arg.row
           message == last_call'.ret
       IN /\ r \in Assigned(tickets)
          /\ message.To = r.email
          /\ Len(message.ticket_numbers) = r.num_tickets
          /\ \A i \in 1..r.num_tickets : message.ticket_numbers[i] = Val(r.id) + i - 1
          /\ tickets' = tickets
          /\ get_max_id_and_span(tickets') = get_max_id_and_span(tickets)]_vars

\* A Resend whose email raised, on an order that does not hold the largest id.
C36_Witness ==
  /\ last_call.fn = "Resend"
  /\ last_call.raised
  /\ \E q \in Assigned(tickets) : Val(q.id) > Val(last_call.arg.row.id)

\* ------------------------------------------------ emailed and exported numbers
\* C37: for every order with id v and ticket count n the email of its send
\* lists v, v+1, ..., v+n-1, the export holds one record for each of these
\* numbers, and no ticket number is in the export twice.
C37_EmailedExportedAgree ==
  /\ \A r \in Assigned(tickets) :
       LET message == send_ticket_email(GmailEmailClient(Production), r.email,
                                        r.name, r.num_tickets, Val(r.id))
       IN {message.ticket_numbers[i] : i \in DOMAIN message.ticket_numbers}
            = {x.Ticket : x \in {y \in export_records(tickets) :
                                   y.Nom = r.name /\ y.Date = r.date}}
  /\ \A x \in export_records(tickets), y \in export_records(tickets) :
       x.Ticket = y.Ticket => x = y

\* ------------------------------------------------ the authorization check
\* The environments with a non-empty list of authorized emails, and the
\* accounts each of them lists.
Listed(env) ==
  IF env = Some(<< <<"ann@x.org">>, <<" ", "bob@x.org", " ">> >>)
  THEN {<<"ann@x.org">>, <<"Ann@x.org">>, <<"bob@x.org">>}
  ELSE IF env \in {Some(<< <<"ann@x.org">> >>), Some(<< <<" ", "Ann@x.org">>, <<>> >>)}
  THEN {<<"ann@x.org">>, <<"Ann@x.org">>}
  ELSE {}

\* C38: with a non-empty list of authorized emails the session holds a token
\* only of an account in the list, never of another account or of an account
\* whose email could not be fetched, and the dashboard is rendered only in a
\* session that holds such a token.
C38_StoreAfterCheck ==
  Listed(auth.AUTHORIZED_EMAILS) # {}
    => /\ auth.google_auth_token # None
            => Val(auth.google_auth_token).email \in Listed(auth.AUTHORIZED_EMAILS)
       /\ auth.dashboard => auth.google_auth_token # None

\* The script run that followed the consent of an account that is not in the
\* list: access denied, nothing stored, no dashboard.
C38_Witness ==
  /\ auth.AUTHORIZED_EMAILS = Some(<< <<" ", "Ann@x.org">>, <<>> >>)
  /\ auth.code = Some(<<"eve@x.org">>)
  /\ auth.message = "Access denied"
  /\ auth.google_auth_token = None
  /\ ~auth.dashboard

\* ------------------------------------------------ one pool per process
\* C39: a SimpleConnectionPool is constructed only while the class holds no
\* pool, so that threads calling _get_pool together while no pool exists
\* construct one pool between them and a second one only after close_pool
\* has reset the attribute; and every call of _get_pool that no reset ran
\* into returns the pool the class holds.
C39_SinglePool ==
  [][/\ cls'.created > cls.created
          => cls._pool = None /\ cls'._pool = Some(cls'.created)
     /\ \A t \in Threads :
          cls'.th[t].pc = "done" /\ ~cls'.th[t].reset
            => cls'.th[t].ret # None /\ cls'.th[t].ret = cls'._pool]_vars

\* Both threads went past the first test while no pool existed, and both
\* calls have returned the one pool that was constructed.
C39_Witness ==
  /\ cls.created = 1
  /\ \A t \in Threads : cls.th[t].pc = "done" /\ cls.th[t].ret = Some(1)
  /\ cls._lock = None

====
